---- MODULE Spec2Model ----
(***************************************************************************)
(* PaperPulse: the daily ingestion pipeline (pipeline_service.py), its     *)
(* triggers (routers/pipeline.py, main.py) and the hybrid retrieval of     *)
(* the ask router (routers/ask.py), modelled as state machines.            *)
(*                                                                         *)
(* Text is modelled as a sequence of one-character strings, so that        *)
(* str.lower, str.strip, str.split and slicing are computed, not assumed.  *)
(***************************************************************************)
EXTENDS Integers, Sequences, FiniteSets, TLC

VARIABLES
    \* ---- _deduplicate_papers applied to a drawn input -------------------
    dd_lists,        \* paper_lists: the argument, a list of candidate lists
    dd_merged,       \* merged: the returned list
    dd_pc,           \* "input" before the call, "done" after it
    \* ---- the stores (supabase tables) ------------------------------------
    users_tbl,       \* table users: user id -> row
    papers,          \* table papers: arxiv_id -> row
    paper_chunks,    \* table paper_chunks: list of rows
    feed_items,      \* table feed_items: list of rows
    \* ---- one execution of run_daily_pipeline -----------------------------
    run_pc,          \* the step the run is at
    run_no,          \* runs started so far
    faults,          \* failures injected so far
    fetched,         \* candidates returned by the providers so far
    users,           \* users_response.data as loaded in step 1
    ui,              \* index of the user loop (step 2 and step 6)
    user_paper_ids,  \* user id -> set of arxiv_id
    all_raw_papers,
    all_papers,
    pi,              \* index of the paper loop (step 4)
    processed_papers,\* arxiv_id -> record
    papers_to_embed, \* list of arxiv_id (the records are processed_papers')
    full_texts,      \* arxiv_id -> extracted text or "none"
    vectors,         \* result of get_embeddings_batch for the current batch
    batch_start,
    ei,              \* index inside the current embedding batch
    all_chunks,      \* chunks still to embed and insert
    feed_items_created,
    result,          \* what the run returned or raised
    \* ---- what happened in the current run (history) ----------------------
    fetch_log,       \* user id -> provider -> "raise" or the returned list
    profile_log,     \* user id -> what the run did with the cached query profile
    rerank_log,      \* user id -> the rerank_query of the ranking step
    present_at_exam, \* arxiv_id -> the stored row found when step 4 examined it
    embed_calls,     \* ids whose text was sent to the embedding service
    summary_calls,   \* ids whose abstract was sent to the summary model
    insert_attempts, \* ids for which papers.insert was called
    embed_failed,    \* ids whose embedding call failed
    summary_failed,  \* ids whose summary call failed
    ranked,          \* user id -> the list `reranked` of step 6
    feed_faults,     \* user id -> positions of `reranked` whose insert raised:
                     \* bad (the store failed), dups (the row existed)
    unit_failures,   \* failures local to one paper or one user
    \* ---- the triggers of the pipeline (routers/pipeline.py, main.py) ------
    _pipeline_status,\* the module global: running, last_result
    sched_runs,      \* the invocations accepted so far, in order of acceptance
    last_response,   \* what the last POST /pipeline/run returned
    triggers,        \* POST requests and timer ticks so far
    \* ---- one call of _retrieve_context (routers/ask.py) -------------------
    ask_pc,          \* the step the call is at
    question,        \* the argument question
    ask_user_id,     \* the argument user_id
    title_failed,    \* a store query of _find_title_matches raised
    title_matches,
    chunk_raised,    \* the chunk similarity query raised
    chunk_results,
    fallback_call,   \* the paper similarity query: "none", "returned", "raised"
    relevant_papers,
    vector_papers,
    merged,
    ask_outcome,     \* "none", "returned" or "raised"
    \* ---- one request to an ask endpoint (routers/ask.py) ------------------
    endpoint,        \* the handler the request went to
    ep_pc,           \* the step the handler is at
    req_question,    \* the field question of the request
    req_files,       \* the uploads of a multimodal request
    req_history,     \* the field history of the request
    intent,          \* what classify_query_intent returned
    calls,           \* the collaborators called so far
    gen_calls,       \* the calls of the answer generation, with arguments
    events,          \* the server-sent events yielded so far
    responses,       \* what the handler returned or raised
    chunk_pc,        \* chunking: where the call sequence stands
    chunk_input,     \* the paper whose full text is chunked
    chunk_batch,     \* the papers handed to batch_chunk_papers
    chunk_result,    \* what chunk_paper returned
    batch_result,    \* what batch_chunk_papers returned
    fp_provider,     \* provider fetch: the provider whose fetch runs
    fp_pc,           \* where the fetch stands
    fp_qi,           \* the position of the loop in the list of queries
    fp_attempt,      \* the variable attempt of the arXiv retry loop
    s2_retries,      \* the attribute fetch_recent_papers._retries
    fp_log,          \* the HTTP requests issued by the call, with their outcomes
    fp_calls,        \* the calls of the fetch made so far
    oa_path,         \* OpenAlex: the path taken, search queries or fallback
    oa_page,         \* the variable page of the fallback loop
    oa_fetched,      \* the variable fetched of the fallback loop
    oa_papers,       \* len(papers) in the fallback path
    oa_pages,        \* the (concept, page) of each request of the fallback
    rr_pc,           \* reranker: where the call stands
    rr_fn,           \* the function called: rerank_papers or rerank_for_qa
    rr_client,       \* _client is set (the API key was present)
    rr_papers,       \* the argument papers
    rr_top_n,        \* the argument top_n
    rr_response,     \* what the rerank service answered, "none" before
    rr_result        \* the list returned

ddVars == <<dd_lists, dd_merged, dd_pc>>

storeVars == <<users_tbl, papers, paper_chunks, feed_items>>

runVars ==
    <<run_pc, run_no, faults, fetched, users, ui, user_paper_ids, all_raw_papers,
      all_papers, pi, processed_papers, papers_to_embed, full_texts, vectors,
      batch_start, ei, all_chunks, feed_items_created, result>>

histVars ==
    <<fetch_log, profile_log, rerank_log, present_at_exam, embed_calls,
      summary_calls,
      insert_attempts,
      embed_failed, summary_failed, ranked, feed_faults, unit_failures>>

pipeVars == <<storeVars, runVars, histVars>>

schedVars == <<_pipeline_status, sched_runs, last_response, triggers>>

askVars ==
    <<ask_pc, question, ask_user_id, title_failed, title_matches, chunk_raised,
      chunk_results, fallback_call, relevant_papers, vector_papers, merged,
      ask_outcome>>

epVars ==
    <<endpoint, ep_pc, req_question, req_files, req_history, intent, calls,
      gen_calls, events, responses>>

chunkVars == <<chunk_pc, chunk_input, chunk_batch, chunk_result, batch_result>>

\* the locals of the OpenAlex fallback loop
oaVars == <<oa_path, oa_page, oa_fetched, oa_papers, oa_pages>>

fetchVars ==
    <<fp_provider, fp_pc, fp_qi, fp_attempt, s2_retries, fp_log, fp_calls,
      oaVars>>

\* the variables of a call of the reranker
rrVars ==
    <<rr_pc, rr_fn, rr_client, rr_papers, rr_top_n, rr_response, rr_result>>

svcVars == <<chunkVars, fetchVars, rrVars>>

\* the variables run_daily_pipeline does not touch
nonPipeVars == <<ddVars, schedVars, askVars, epVars, svcVars>>

vars == <<ddVars, pipeVars, schedVars, askVars, epVars, svcVars>>

(***************************************************************************)
(* Bounds                                                                  *)
(***************************************************************************)
MaxCand == 3         \* candidates in one drawn input of the dedup merge

(***************************************************************************)
(* Text helpers                                                            *)
(***************************************************************************)
\* str.lower on the characters the model uses
LowerMap ==
    ("A" :> "a") @@ ("B" :> "b") @@ ("C" :> "c") @@ ("D" :> "d") @@
    ("E" :> "e") @@ ("F" :> "f") @@ ("G" :> "g") @@ ("H" :> "h") @@
    ("I" :> "i") @@ ("J" :> "j") @@ ("K" :> "k") @@ ("L" :> "l") @@
    ("M" :> "m") @@ ("N" :> "n") @@ ("O" :> "o") @@ ("P" :> "p") @@
    ("Q" :> "q") @@ ("R" :> "r") @@ ("S" :> "s") @@ ("T" :> "t") @@
    ("U" :> "u") @@ ("V" :> "v") @@ ("W" :> "w") @@ ("X" :> "x") @@
    ("Y" :> "y") @@ ("Z" :> "z")

LowerChar(c) == IF c \in DOMAIN LowerMap THEN LowerMap[c] ELSE c

Lower(s) == [i \in 1..Len(s) |-> LowerChar(s[i])]

\* the characters str.strip() and str.split() treat as whitespace
Whitespace == {" ", "\t", "\n"}

\* s[:n]
Prefix(s, n) == SubSeq(s, 1, IF Len(s) < n THEN Len(s) ELSE n)

\* str.strip(chars): drop the leading and trailing characters that are in chars
StripChars(s, chars) ==
    LET keep == {i \in 1..Len(s) : s[i] \notin chars}
    IN  IF keep = {} THEN <<>>
        ELSE LET lo == CHOOSE i \in keep : \A j \in keep : i <= j
                 hi == CHOOSE i \in keep : \A j \in keep : j <= i
             IN  SubSeq(s, lo, hi)

Strip(s) == StripChars(s, Whitespace)

\* the positions of s that carry id, the least of a set, the ids of a list
PosOfId(s, id) == {i \in 1..Len(s) : s[i].arxiv_id = id}
FirstPos(S) == CHOOSE i \in S : \A j \in S : i <= j
IdsOf(s) == {s[i].arxiv_id : i \in 1..Len(s)}

(***************************************************************************)
(* _deduplicate_papers (pipeline_service.py)                               *)
(***************************************************************************)
TITLE_KEY_LEN == 100

\* title_key = p.get("title", "").lower().strip()[:100]
title_key(title) == Prefix(Strip(Lower(title)), TITLE_KEY_LEN)

\* the local state of the merge before the first candidate
DedupStart == [seen_ids |-> {}, seen_titles |-> {}, merged |-> <<>>]

\* the body of the inner loop with the id test left out
DedupStep_noIdTest(acc, p) ==
    LET pid == p.arxiv_id
        tk  == title_key(p.title)
    IN  IF tk \in acc.seen_titles
        THEN acc
        ELSE [seen_ids    |-> acc.seen_ids \cup {pid},
              seen_titles |-> IF tk # <<>> THEN acc.seen_titles \cup {tk}
                              ELSE acc.seen_titles,
              merged      |-> Append(acc.merged, p)]

\* the body of the inner loop for one candidate p
DedupStep(acc, p) ==
    LET pid == p.arxiv_id
        tk  == title_key(p.title)
    IN  IF pid \in acc.seen_ids \/ tk \in acc.seen_titles
        THEN acc
        ELSE [seen_ids    |-> acc.seen_ids \cup {pid},
              seen_titles |-> IF tk # <<>> THEN acc.seen_titles \cup {tk}
                              ELSE acc.seen_titles,
              merged      |-> Append(acc.merged, p)]

RECURSIVE DedupList(_, _)
\* the inner loop over one list
DedupList(acc, lst) ==
    IF lst = <<>> THEN acc
    ELSE DedupList(DedupStep(acc, Head(lst)), Tail(lst))

RECURSIVE DedupLists(_, _)
\* the outer loop over the lists
DedupLists(acc, lists) ==
    IF lists = <<>> THEN acc
    ELSE DedupLists(DedupList(acc, Head(lists)), Tail(lists))

_deduplicate_papers(paper_lists) == DedupLists(DedupStart, paper_lists).merged

(***************************************************************************)
(* Candidates drawn for the dedup merge                                    *)
(***************************************************************************)
T_DeepNets   == <<"D","e","e","p"," ","N","e","t","s">>
T_deepnets_p == <<" ","d","e","e","p"," ","n","e","t","s"," ">>
\* the first title with two blanks between its words
T_Deep__Nets == <<"D","e","e","p"," "," ","N","e","t","s">>
T_Graphs     == <<"G","r","a","p","h","s">>
T_Empty      == <<>>

Cand(id, title, source) == [arxiv_id |-> id, title |-> title, source |-> source]

\* two ids, each under several titles: equal titles up to case and outer
\* blanks, a different title, no title; a third id under a title equal to the
\* first up to the blanks between its words
DedupCatalog ==
    { Cand("2401.00001", T_DeepNets, "arxiv"),
      Cand("2401.00001", T_Graphs, "semantic_scholar"),
      Cand("2401.00001", T_Empty, "openalex"),
      Cand("s2:77", T_deepnets_p, "semantic_scholar"),
      Cand("s2:77", T_Graphs, "openalex"),
      Cand("s2:77", T_Empty, "pubmed"),
      Cand("oa:W9", T_Deep__Nets, "openalex") }

\* all lists of at most n candidates
CandLists(n) == UNION {[1..k -> DedupCatalog] : k \in 0..n}

RECURSIVE Flatten(_)
Flatten(lists) ==
    IF lists = <<>> THEN <<>> ELSE Head(lists) \o Flatten(Tail(lists))

\* the drawn inputs: one list, or the same candidates cut into two lists
DedupInputs ==
    {<<l>> : l \in CandLists(MaxCand)}
    \cup UNION {{<<SubSeq(l, 1, k), SubSeq(l, k + 1, Len(l))>> :
                    k \in 0..Len(l)} : l \in CandLists(MaxCand)}

(***************************************************************************)
(* run_daily_pipeline (pipeline_service.py): configuration and stores      *)
(***************************************************************************)
EMBEDDING_BATCH_SIZE == 64
TOP_MATCHES_PER_USER == 25

MaxRuns == 2         \* executions of run_daily_pipeline in one behaviour
MaxFaults == 1       \* failures injected in one behaviour
MaxFetched == 3      \* candidates the providers return in one behaviour

UserIds == {"u1", "u2"}
Providers == <<"arxiv", "semantic_scholar", "pubmed", "openalex">>
ProviderSet == {Providers[i] : i \in 1..Len(Providers)}

T_Vision == <<"V","i","s","i","o","n">>

\* what each provider can return for one user
ProviderLists ==
    [arxiv |-> {<<>>, <<Cand("2401.00001", T_DeepNets, "arxiv")>>},
     semantic_scholar |->
        {<<>>, <<Cand("2401.00001", T_Graphs, "semantic_scholar")>>,
               <<Cand("s2:77", T_deepnets_p, "semantic_scholar")>>},
     pubmed |-> {<<>>, <<Cand("pmid:5", T_Graphs, "pubmed")>>},
     openalex |-> {<<>>, <<Cand("oa:W9", T_Vision, "openalex")>>}]

\* the value of users.optimized_queries: absent, or json.dumps of a profile
NoProfile == [kind |-> "null"]
\* a stored string that json.loads rejects
UnparsableProfile == [kind |-> "text"]
JsonProfile(queries) == [kind |-> "json", search_queries |-> queries]
CachedProfile == JsonProfile(<<"graph neural network molecule">>)

UserRow(id, domains, interest, opt) ==
    [id |-> id, domains |-> domains, interest_text |-> interest,
     optimized_queries |-> opt]

\* the users tables a behaviour can start from
UserTables ==
    { [u \in UserIds |-> UserRow(u, <<"cs">>, "gnn for molecules", CachedProfile)],
      [u \in UserIds |->
         IF u = "u1" THEN UserRow(u, <<"cs">>, "gnn for molecules", NoProfile)
         ELSE UserRow(u, <<"cs">>, "gnn for molecules", CachedProfile)],
      [u \in UserIds |->
         IF u = "u1" THEN UserRow(u, <<"cs">>, "gnn for molecules", CachedProfile)
         ELSE UserRow(u, <<>>, "", NoProfile)],
      [u \in UserIds |->
         IF u = "u1" THEN UserRow(u, <<"cs">>, "gnn for molecules", UnparsableProfile)
         ELSE UserRow(u, <<"cs">>, "gnn for molecules", JsonProfile(<<>>))] }

\* supabase.table("users").select("*"): the rows in a fixed order
UsersSelect == <<users_tbl["u1"], users_tbl["u2"]>>

\* supabase.table("papers").select(...).eq("arxiv_id", pid): the matching rows
PapersSelect(pid) == IF pid \in DOMAIN papers THEN <<papers[pid]>> ELSE <<>>

\* a feed row for (user_id, paper_id) exists
FeedHas(feed, user_id, paper_id) ==
    \E i \in 1..Len(feed) :
        feed[i].user_id = user_id /\ feed[i].paper_id = paper_id

EmptyFn == [x \in {} |-> x]

\* the local state of a run that is not executing
RunIdle ==
    /\ users = <<>>
    /\ ui = 0
    /\ user_paper_ids = EmptyFn
    /\ all_raw_papers = <<>>
    /\ all_papers = <<>>
    /\ pi = 0
    /\ processed_papers = EmptyFn
    /\ papers_to_embed = <<>>
    /\ full_texts = EmptyFn
    /\ vectors = <<>>
    /\ batch_start = 0
    /\ ei = 0
    /\ all_chunks = <<>>
    /\ feed_items_created = 0
    /\ fetch_log = EmptyFn
    /\ profile_log = EmptyFn
    /\ rerank_log = EmptyFn
    /\ present_at_exam = EmptyFn
    /\ embed_calls = {}
    /\ summary_calls = {}
    /\ insert_attempts = {}
    /\ embed_failed = {}
    /\ summary_failed = {}
    /\ ranked = EmptyFn
    /\ feed_faults = EmptyFn
    /\ unit_failures = {}

\* the pipeline variables when no pipeline behaviour is explored
PipeIdle ==
    /\ users_tbl = [u \in UserIds |-> UserRow(u, <<"cs">>, "gnn for molecules", CachedProfile)]
    /\ papers = EmptyFn
    /\ paper_chunks = <<>>
    /\ feed_items = <<>>
    /\ run_pc = "idle"
    /\ run_no = 0
    /\ faults = 0
    /\ fetched = 0
    /\ result = [status |-> "none"]
    /\ RunIdle

InitPipe ==
    /\ users_tbl \in UserTables
    /\ papers = EmptyFn
    /\ paper_chunks = <<>>
    /\ feed_items = <<>>
    /\ run_pc = "idle"
    /\ run_no = 0
    /\ faults = 0
    /\ fetched = 0
    /\ result = [status |-> "none"]
    /\ RunIdle

\* the dedup variables when no drawn input is explored
DedupIdle == dd_lists = <<>> /\ dd_merged = <<>> /\ dd_pc = "off"

\* the trigger variables when no trigger is explored
SchedIdle ==
    /\ _pipeline_status = [running |-> FALSE, last_result |-> "None"]
    /\ sched_runs = <<>>
    /\ last_response = "none"
    /\ triggers = 0

\* the retrieval variables when no question is explored
AskIdle ==
    /\ ask_pc = "off"
    /\ question = <<>>
    /\ ask_user_id = "none"
    /\ title_failed = FALSE
    /\ title_matches = <<>>
    /\ chunk_raised = FALSE
    /\ chunk_results = <<>>
    /\ fallback_call = "none"
    /\ relevant_papers = <<>>
    /\ vector_papers = <<>>
    /\ merged = <<>>
    /\ ask_outcome = "none"

\* the endpoint variables when no request is explored
EpIdle ==
    /\ endpoint = "none"
    /\ ep_pc = "off"
    /\ req_question = <<>>
    /\ req_files = "none"
    /\ req_history = <<>>
    /\ intent = "none"
    /\ calls = {}
    /\ gen_calls = <<>>
    /\ events = <<>>
    /\ responses = <<>>

ChunkIdle ==
    /\ chunk_pc = "off"
    /\ chunk_input = [arxiv_id |-> "none", title |-> "none", full_text |-> <<>>]
    /\ chunk_batch = <<>>
    /\ chunk_result = <<>>
    /\ batch_result = <<>>

FetchIdle ==
    /\ fp_provider = "none"
    /\ fp_pc = "off"
    /\ fp_qi = 0
    /\ fp_attempt = 0
    /\ s2_retries = 0
    /\ fp_log = <<>>
    /\ fp_calls = 0
    /\ oa_path = "none"
    /\ oa_page = 0
    /\ oa_fetched = 0
    /\ oa_papers = 0
    /\ oa_pages = <<>>

RrIdle ==
    /\ rr_pc = "off"
    /\ rr_fn = "none"
    /\ rr_client = FALSE
    /\ rr_papers = <<>>
    /\ rr_top_n = 0
    /\ rr_response = [called |-> FALSE, raised |-> FALSE, results |-> <<>>]
    /\ rr_result = <<>>

SvcIdle == ChunkIdle /\ FetchIdle /\ RrIdle

Init == InitPipe /\ DedupIdle /\ SchedIdle /\ AskIdle /\ EpIdle /\ SvcIdle

\* one more failure may be injected
CanFail == faults < MaxFaults

\* the exception leaves run_daily_pipeline
Raise(at) ==
    /\ run_pc' = "raised"
    /\ result' = [status |-> "raised", at |-> at]

(***************************************************************************)
(* Step 1: load the users                                                  *)
(***************************************************************************)
\* the locals of a run as they are when the function is entered
RunReset ==
    /\ user_paper_ids' = EmptyFn
    /\ all_raw_papers' = <<>>
    /\ all_papers' = <<>>
    /\ pi' = 0
    /\ processed_papers' = EmptyFn
    /\ papers_to_embed' = <<>>
    /\ full_texts' = EmptyFn
    /\ vectors' = <<>>
    /\ batch_start' = 0
    /\ ei' = 0
    /\ all_chunks' = <<>>
    /\ feed_items_created' = 0
    /\ fetch_log' = EmptyFn
    /\ profile_log' = EmptyFn
    /\ rerank_log' = EmptyFn
    /\ present_at_exam' = EmptyFn
    /\ embed_calls' = {}
    /\ summary_calls' = {}
    /\ insert_attempts' = {}
    /\ embed_failed' = {}
    /\ summary_failed' = {}
    /\ ranked' = EmptyFn
    /\ feed_faults' = EmptyFn
    /\ unit_failures' = {}

\* users = supabase.table("users").select("*").execute().data
StartRun ==
    /\ run_pc \in {"idle", "done", "raised"}
    /\ run_no < MaxRuns
    /\ run_no' = run_no + 1
    /\ users' = UsersSelect
    /\ ui' = 1
    /\ RunReset
    /\ result' = [status |-> "none"]
    /\ run_pc' = "fetch"
    /\ UNCHANGED <<storeVars, nonPipeVars, fetched, faults>>

\* the users query raises: the run ends before it has done anything
StartRunRaises ==
    /\ run_pc \in {"idle", "done", "raised"}
    /\ run_no < MaxRuns
    /\ CanFail
    /\ run_no' = run_no + 1
    /\ faults' = faults + 1
    /\ users' = <<>>
    /\ ui' = 0
    /\ RunReset
    /\ Raise("users_select")
    /\ UNCHANGED <<storeVars, nonPipeVars, fetched>>

(***************************************************************************)
(* Step 2: per-user fetching                                               *)
(***************************************************************************)
\* the optimizer runs for every user, whatever is cached
HasQueries_never(raw) == FALSE

\* the cached profile parses and has search queries (lines 114-124)
HasQueries(raw) == raw.kind = "json" /\ raw.search_queries # <<>>

\* optimize_user_interests: the empty profile for a blank interest text,
\* otherwise the queries of the model or of _fallback_extract
OptimizerResults(interest_text) ==
    IF interest_text = "" THEN {<<>>}
    ELSE {<<"molecular graph neural network">>}

\* a provider call either raises or returns a list
Raised == [raised |-> TRUE, papers |-> <<>>]
Returned(l) == [raised |-> FALSE, papers |-> l]

\* what a provider call contributes: [] when it raised (the except branch)
Contribution(outcome) == IF outcome.raised THEN <<>> ELSE outcome.papers

\* a raise of one provider loses the whole user
UserPapers_allOrNothing(o) ==
    IF \E q \in DOMAIN o : o[q].raised THEN <<>>
    ELSE o.arxiv.papers \o o.semantic_scholar.papers \o o.pubmed.papers
            \o o.openalex.papers

\* user_papers = arxiv + s2 + pubmed + openalex
UserPapers(o) ==
    Contribution(o.arxiv) \o Contribution(o.semantic_scholar)
        \o Contribution(o.pubmed) \o Contribution(o.openalex)

RaiseCount(o) == Cardinality({q \in DOMAIN o : o[q].raised})

CallOutcomes(lists) == {Raised} \cup {Returned(l) : l \in lists}

\* the outcomes of the four provider calls for one user
FetchOutcomes ==
    [arxiv : CallOutcomes(ProviderLists.arxiv),
     semantic_scholar : CallOutcomes(ProviderLists.semantic_scholar),
     pubmed : CallOutcomes(ProviderLists.pubmed),
     openalex : CallOutcomes(ProviderLists.openalex)]

\* the body of the user loop for a user without domains
FetchUserSkip ==
    /\ run_pc = "fetch"
    /\ ui <= Len(users)
    /\ users[ui].domains = <<>>
    /\ user_paper_ids' = (users[ui].id :> {}) @@ user_paper_ids
    /\ ui' = ui + 1
    /\ UNCHANGED <<storeVars, nonPipeVars, run_pc, run_no, fetched, faults, users,
                   all_raw_papers, all_papers, pi, processed_papers,
                   papers_to_embed, full_texts, vectors, batch_start, ei,
                   all_chunks, feed_items_created, result, histVars>>

\* the body of the user loop for a user with domains
FetchUser ==
    /\ run_pc = "fetch"
    /\ ui <= Len(users)
    /\ users[ui].domains # <<>>
    /\ LET user == users[ui]
           uid  == user.id
       IN  \E o \in FetchOutcomes, updFails \in BOOLEAN :
             \E gen \in OptimizerResults(user.interest_text) :
               LET regenerate == ~HasQueries(user.optimized_queries)
                   nfaults == RaiseCount(o)
                                + (IF regenerate /\ updFails THEN 1 ELSE 0)
                   user_papers == UserPapers(o)
               IN  /\ (~regenerate) => (~updFails)
                   /\ faults + nfaults <= MaxFaults
                   /\ fetched + Len(user_papers) <= MaxFetched
                   /\ fetched' = fetched + Len(user_papers)
                   /\ faults' = faults + nfaults
                   /\ users_tbl' =
                        IF regenerate /\ ~updFails
                        THEN [users_tbl EXCEPT
                                ![uid].optimized_queries = JsonProfile(gen)]
                        ELSE users_tbl
                   /\ user_paper_ids' =
                        (uid :> IdsOf(user_papers)) @@ user_paper_ids
                   /\ all_raw_papers' = all_raw_papers \o user_papers
                   /\ fetch_log' = (uid :> o) @@ fetch_log
                   /\ profile_log' =
                        (uid :> [stored |-> user.optimized_queries,
                                 optimizer_called |-> regenerate,
                                 search_queries |->
                                    IF regenerate THEN gen
                                    ELSE user.optimized_queries.search_queries,
                                 after |-> users_tbl'[uid].optimized_queries])
                          @@ profile_log
    /\ ui' = ui + 1
    /\ UNCHANGED <<nonPipeVars, papers, paper_chunks, feed_items, run_pc, run_no,
                   users, all_papers, pi, processed_papers, papers_to_embed,
                   full_texts, vectors, batch_start, ei, all_chunks,
                   feed_items_created, result, present_at_exam, embed_calls,
                   summary_calls, insert_attempts, embed_failed,
                   summary_failed, ranked, feed_faults, unit_failures,
                   rerank_log>>

(***************************************************************************)
(* Step 3: global dedup                                                    *)
(***************************************************************************)
GlobalDedup ==
    /\ run_pc = "fetch"
    /\ ui > Len(users)
    /\ all_papers' = _deduplicate_papers(<<all_raw_papers>>)
    /\ pi' = 1
    /\ run_pc' = "exam"
    /\ UNCHANGED <<storeVars, nonPipeVars, run_no, fetched, faults, users, ui,
                   user_paper_ids, all_raw_papers, processed_papers,
                   papers_to_embed, full_texts, vectors, batch_start, ei,
                   all_chunks, feed_items_created, result, histVars>>

(***************************************************************************)
(* Step 4: embed and summarize the new papers                              *)
(***************************************************************************)
\* `if existing.data` never taken: every paper is handled as new
IsPersisted_never(existing) == FALSE

\* `if existing.data`
IsPersisted(existing) == existing # <<>>

\* paper_record as built for a new paper
NewRecord(paper) ==
    [arxiv_id |-> paper.arxiv_id, title |-> paper.title,
     source |-> paper.source, abstract_vector |-> "unset",
     summary |-> "unset", full_text |-> "none"]

\* the existence query of one paper raises: the exception is not caught
ExamPaperRaises ==
    /\ run_pc = "exam"
    /\ pi <= Len(all_papers)
    /\ CanFail
    /\ faults' = faults + 1
    /\ unit_failures' = unit_failures \cup
          {[unit |-> "paper", id |-> all_papers[pi].arxiv_id,
            at |-> "exists_query"]}
    /\ Raise("exists_query")
    /\ UNCHANGED <<storeVars, nonPipeVars, run_no, fetched, users, ui, user_paper_ids,
                   all_raw_papers, all_papers, pi, processed_papers,
                   papers_to_embed, full_texts, vectors, batch_start, ei,
                   all_chunks, feed_items_created, fetch_log, profile_log, rerank_log, present_at_exam,
                   embed_calls, summary_calls, insert_attempts, embed_failed,
                   summary_failed, ranked, feed_faults>>

\* the body of the paper loop for one paper
ExamPaper ==
    /\ run_pc = "exam"
    /\ pi <= Len(all_papers)
    /\ LET paper == all_papers[pi]
           pid == paper.arxiv_id
           existing == PapersSelect(pid)
       IN  /\ present_at_exam' =
                IF pid \in DOMAIN papers
                THEN (pid :> papers[pid]) @@ present_at_exam
                ELSE present_at_exam
           /\ IF IsPersisted(existing)
              THEN /\ processed_papers' = (pid :> existing[1]) @@ processed_papers
                   /\ UNCHANGED papers_to_embed
              ELSE /\ processed_papers' = (pid :> NewRecord(paper)) @@ processed_papers
                   /\ papers_to_embed' = Append(papers_to_embed, pid)
    /\ pi' = pi + 1
    /\ UNCHANGED <<storeVars, nonPipeVars, run_pc, run_no, fetched, faults, users, ui,
                   user_paper_ids, all_raw_papers, all_papers, full_texts,
                   vectors, batch_start, ei, all_chunks, feed_items_created,
                   result, fetch_log, profile_log, rerank_log, embed_calls, summary_calls,
                   insert_attempts, embed_failed, summary_failed, ranked,
                   feed_faults, unit_failures>>

\* the ids whose PDF is extracted: new arXiv-sourced papers with an id
ArxivToExtract ==
    {papers_to_embed[i] : i \in
        {j \in 1..Len(papers_to_embed) :
            /\ processed_papers[papers_to_embed[j]].source = "arxiv"
            /\ papers_to_embed[j] # ""}}

\* batch_extract_arxiv: a text, or None, for every id
ExtractPdf ==
    /\ run_pc = "exam"
    /\ pi > Len(all_papers)
    /\ full_texts' \in [ArxivToExtract -> {"none", "text"}]
    /\ batch_start' = 0
    /\ run_pc' = "embed"
    /\ UNCHANGED <<storeVars, nonPipeVars, run_no, fetched, faults, users, ui,
                   user_paper_ids, all_raw_papers, all_papers, pi,
                   processed_papers, papers_to_embed, vectors, ei, all_chunks,
                   feed_items_created, result, histVars>>

Min(a, b) == IF a < b THEN a ELSE b

\* papers_to_embed[batch_start : batch_start + EMBEDDING_BATCH_SIZE]
Batch(s, start) ==
    SubSeq(s, start + 1, Min(Len(s), start + EMBEDDING_BATCH_SIZE))

SeqToSet(s) == {s[i] : i \in 1..Len(s)}

\* get_embeddings_batch: one vector per text, or [] per text when the call fails
EmbeddingResults(texts) ==
    {[i \in 1..Len(texts) |-> "vec"], [i \in 1..Len(texts) |-> "empty"]}

\* one call of get_embeddings_batch for the next batch of new papers
EmbedBatch ==
    /\ run_pc = "embed"
    /\ batch_start < Len(papers_to_embed)
    /\ LET batch == Batch(papers_to_embed, batch_start)
       IN  \E vs \in EmbeddingResults(batch) :
             LET failed == \E i \in 1..Len(vs) : vs[i] = "empty"
             IN  /\ failed => CanFail
                 /\ faults' = IF failed THEN faults + 1 ELSE faults
                 /\ vectors' = vs
                 /\ embed_calls' = embed_calls \cup SeqToSet(batch)
                 /\ embed_failed' =
                      IF failed THEN embed_failed \cup SeqToSet(batch)
                      ELSE embed_failed
    /\ ei' = 1
    /\ run_pc' = "enrich"
    /\ UNCHANGED <<storeVars, nonPipeVars, run_no, fetched, users, ui, user_paper_ids,
                   all_raw_papers, all_papers, pi, processed_papers,
                   papers_to_embed, full_texts, batch_start, all_chunks,
                   feed_items_created, result, fetch_log, profile_log, rerank_log, present_at_exam,
                   summary_calls, insert_attempts, summary_failed, ranked,
                   feed_faults, unit_failures>>

\* generate_paper_summary: the text of the model, or the fixed text returned
\* by its except branch
SummaryResults == {"text", "Summary could not be generated."}

\* the vector columns are pgvector columns of EMBEDDING_DIMENSIONS entries:
\* the [] that get_embeddings_batch returns on failure is not a value of them
DbAcceptsVector(v) == v # "empty"

\* the body of the inner loop: vector, full text, summary, insert
EnrichPaper ==
    /\ run_pc = "enrich"
    /\ LET batch == Batch(papers_to_embed, batch_start)
           n == Min(Len(batch), Len(vectors))
       IN  /\ ei <= n
           /\ LET pid == batch[ei]
                  ft == IF pid \in DOMAIN full_texts THEN full_texts[pid]
                        ELSE "none"
              IN  \E summary \in SummaryResults, dbFails \in BOOLEAN :
                    LET sfail == summary # "text"
                        nfaults == (IF sfail THEN 1 ELSE 0)
                                     + (IF dbFails THEN 1 ELSE 0)
                        rec == [processed_papers[pid] EXCEPT
                                  !.abstract_vector = vectors[ei],
                                  !.full_text = ft,
                                  !.summary = summary]
                        attempt == TRUE
                        \* a row with that key exists: the insert raises
                        conflict == pid \in DOMAIN papers
                    IN  /\ faults + nfaults <= MaxFaults
                        /\ faults' = faults + nfaults
                        /\ papers' =
                             IF attempt /\ ~dbFails /\ ~conflict
                                /\ DbAcceptsVector(vectors[ei])
                             THEN (pid :> rec) @@ papers
                             ELSE papers
                        /\ processed_papers' =
                             [processed_papers EXCEPT ![pid] = rec]
                        /\ summary_calls' = summary_calls \cup {pid}
                        /\ summary_failed' =
                             IF sfail THEN summary_failed \cup {pid}
                             ELSE summary_failed
                        /\ insert_attempts' =
                             IF attempt THEN insert_attempts \cup {pid}
                             ELSE insert_attempts
                        /\ unit_failures' =
                             IF dbFails
                             THEN unit_failures \cup
                                    {[unit |-> "paper", id |-> pid,
                                      at |-> "insert"]}
                             ELSE unit_failures
           /\ IF ei < n
              THEN ei' = ei + 1 /\ UNCHANGED <<batch_start, run_pc>>
              ELSE /\ ei' = 0
                   /\ batch_start' = batch_start + EMBEDDING_BATCH_SIZE
                   /\ run_pc' = "embed"
    /\ UNCHANGED <<nonPipeVars, users_tbl, paper_chunks, feed_items, run_no, fetched, users,
                   ui, user_paper_ids, all_raw_papers, all_papers, pi,
                   papers_to_embed, full_texts, vectors, all_chunks,
                   feed_items_created, result, fetch_log, profile_log, rerank_log, present_at_exam,
                   embed_calls, embed_failed, ranked, feed_faults>>

(***************************************************************************)
(* Step 5: chunk and embed the full texts of the new papers                *)
(***************************************************************************)
\* the number of chunks chunk_paper returns for an extracted text
CHUNKS_PER_TEXT == 2

\* chunk_paper: the chunks of one paper, chunk_index 0..n-1
ChunkRecords(paper_id) ==
    [i \in 1..CHUNKS_PER_TEXT |-> [paper_id |-> paper_id, chunk_index |-> i - 1]]

RECURSIVE BatchChunkPapers(_)
\* batch_chunk_papers over the ids of the papers with a full text
BatchChunkPapers(ids) ==
    IF ids = <<>> THEN <<>>
    ELSE ChunkRecords(Head(ids)) \o BatchChunkPapers(Tail(ids))

\* papers_with_text, as the list of their ids
PapersWithText ==
    LET hasText(pid) == /\ pid \in DOMAIN processed_papers
                        /\ processed_papers[pid].full_text # "none"
    IN  SelectSeq(papers_to_embed, hasText)

ChunkPapers ==
    /\ run_pc = "embed"
    /\ batch_start >= Len(papers_to_embed)
    /\ all_chunks' = BatchChunkPapers(PapersWithText)
    /\ batch_start' = 0
    /\ run_pc' = "chunk"
    /\ UNCHANGED <<storeVars, nonPipeVars, run_no, fetched, faults, users, ui,
                   user_paper_ids, all_raw_papers, all_papers, pi,
                   processed_papers, papers_to_embed, full_texts, vectors, ei,
                   feed_items_created, result, histVars>>

RECURSIVE InsertChunks(_, _, _, _, _)
\* the loop over zip(batch, chunk_vectors): an insert that raises is skipped.
\* The insert raises when the store fails (positions in bad), when the
\* chunk's paper is not in the papers table (paper_id is a foreign key) or
\* when the vector is not a value of the column.
InsertChunks(tbl, batch, vs, bad, i) ==
    IF i > Min(Len(batch), Len(vs)) THEN tbl
    ELSE LET row == [paper_id |-> batch[i].paper_id,
                     chunk_index |-> batch[i].chunk_index,
                     chunk_vector |-> vs[i]]
             raises == \/ i \in bad
                       \/ batch[i].paper_id \notin DOMAIN papers
                       \/ ~DbAcceptsVector(vs[i])
         IN  InsertChunks(IF raises THEN tbl ELSE Append(tbl, row),
                          batch, vs, bad, i + 1)

\* one batch of chunks: one embedding call, then one insert per chunk
ChunkBatch ==
    /\ run_pc = "chunk"
    /\ batch_start < Len(all_chunks)
    /\ LET batch == Batch(all_chunks, batch_start)
       IN  \E vs \in EmbeddingResults(batch), bad \in SUBSET (1..Len(batch)) :
             LET failed == \E i \in 1..Len(vs) : vs[i] = "empty"
                 nfaults == (IF failed THEN 1 ELSE 0) + Cardinality(bad)
             IN  /\ faults + nfaults <= MaxFaults
                 /\ faults' = faults + nfaults
                 /\ paper_chunks' = InsertChunks(paper_chunks, batch, vs, bad, 1)
                 /\ unit_failures' = unit_failures \cup
                      {[unit |-> "paper", id |-> batch[i].paper_id,
                        at |-> "chunk_insert"] : i \in bad}
    /\ batch_start' = batch_start + EMBEDDING_BATCH_SIZE
    /\ UNCHANGED <<nonPipeVars, users_tbl, papers, feed_items, run_pc, run_no, fetched,
                   users, ui, user_paper_ids, all_raw_papers, all_papers, pi,
                   processed_papers, papers_to_embed, full_texts, vectors, ei,
                   all_chunks, feed_items_created, result, fetch_log, profile_log, rerank_log,
                   present_at_exam, embed_calls, summary_calls,
                   insert_attempts, embed_failed, summary_failed, ranked,
                   feed_faults>>

\* step 5 is over: go on with the ranking
ChunksDone ==
    /\ run_pc = "chunk"
    /\ batch_start >= Len(all_chunks)
    /\ ui' = 1
    /\ run_pc' = "rank"
    /\ UNCHANGED <<storeVars, nonPipeVars, run_no, fetched, faults, users, user_paper_ids,
                   all_raw_papers, all_papers, pi, processed_papers,
                   papers_to_embed, full_texts, vectors, batch_start, ei,
                   all_chunks, feed_items_created, result, histVars>>

(***************************************************************************)
(* Step 6: per-user ranking and the feed                                   *)
(***************************************************************************)
\* the orders in which a set can be iterated
Orders(S) ==
    {s \in [1..Cardinality(S) -> S] :
        \A i, j \in 1..Cardinality(S) : i # j => s[i] # s[j]}

\* rerank_papers (rerank_service.py): the first top_n papers in input order
\* when there is no client or the call raises, else the papers picked by the
\* service, each with its _rerank_score
RerankPapers(pool, top_n) ==
    LET k == Min(top_n, Len(pool))
    IN  IF pool = <<>> THEN {<<>>}
        ELSE {Prefix(pool, top_n)}
             \cup {[i \in 1..k |-> [pool[idx[i]] EXCEPT !.score = "rerank"]] :
                     idx \in {f \in [1..k -> 1..Len(pool)] :
                                \A a, b \in 1..k : a # b => f[a] # f[b]}}

\* the except branch ends the loop instead of passing
FeedLoopGoesOn_stop(raised) == ~raised

\* `except Exception: pass`: the loop goes on with the next item
FeedLoopGoesOn(raised) == TRUE

RECURSIVE InsertFeedItems(_, _, _, _, _)
\* the loop over enumerate(reranked) for one user. An insert raises when the
\* store fails (positions in bad), when the (user_id, paper_id) row exists
\* (UNIQUE constraint) or when the paper is not in the papers table.
\* The count of created rows is never negative: the test of it has the
\* state of one iteration evaluated before the next one starts.
InsertFeedItems(acc, user_id, reranked, bad, rank) ==
    IF rank >= Len(reranked) THEN acc
    ELSE LET paper == reranked[rank + 1]
             n == IF Len(reranked) > 1 THEN Len(reranked) ELSE 1
             relevance_score ==
                IF paper.score = "rerank" THEN <<"rerank", 0, 0>>
                ELSE <<"position", n - rank, n>>
             row == [user_id |-> user_id, paper_id |-> paper.arxiv_id,
                     relevance_score |-> relevance_score]
             raises == \/ (rank + 1) \in bad
                       \/ FeedHas(acc.feed, user_id, paper.arxiv_id)
                       \/ paper.arxiv_id \notin DOMAIN papers
             dup == FeedHas(acc.feed, user_id, paper.arxiv_id)
             next == IF raises
                     THEN [acc EXCEPT !.dups =
                             IF dup THEN acc.dups \cup {rank + 1} ELSE acc.dups]
                     ELSE [acc EXCEPT !.feed = Append(acc.feed, row),
                                      !.created = acc.created + 1]
         IN  IF FeedLoopGoesOn(raises) /\ next.created >= 0
             THEN InsertFeedItems(next, user_id, reranked, bad, rank + 1)
             ELSE next

\* a pool entry: the record of processed_papers, without a _rerank_score
PoolEntry(pid) == [arxiv_id |-> pid, score |-> "none"]

\* " ".join(parts), kept as the list of the parts that are joined
Join(parts) == parts

\* rerank_query of step 6 (lines 337-349), from the row loaded in step 1:
\* the joined search queries of a stored profile that parses, else the
\* interest text, else "recent research"
RerankQuery(user) ==
    LET raw == user.optimized_queries
        interest_text == user.interest_text
        first == IF raw.kind = "json" THEN Join(raw.search_queries)
                 ELSE <<interest_text>>
    IN  IF first = <<>> \/ first = <<"">>
        THEN (IF interest_text # "" THEN <<interest_text>>
              ELSE <<"recent research">>)
        ELSE first

\* the body of the user loop of step 6 for a user without fetched papers
RankUserSkip ==
    /\ run_pc = "rank"
    /\ ui <= Len(users)
    /\ user_paper_ids[users[ui].id] = {}
    /\ ui' = ui + 1
    /\ UNCHANGED <<storeVars, nonPipeVars, run_pc, run_no, fetched, faults, users,
                   user_paper_ids, all_raw_papers, all_papers, pi,
                   processed_papers, papers_to_embed, full_texts, vectors,
                   batch_start, ei, all_chunks, feed_items_created, result,
                   histVars>>

\* the pool goes through the reranker from TOP_MATCHES_PER_USER papers on
NeedsRerank_atTopN(user_pool) == Len(user_pool) >= TOP_MATCHES_PER_USER

\* `if len(user_pool) > TOP_MATCHES_PER_USER`
NeedsRerank(user_pool) == Len(user_pool) > TOP_MATCHES_PER_USER

\* the loop over enumerate(reranked) of one user and what the run records
\* of it; bad are the positions at which the feed store fails
SaveToFeed(uid, user_pool, reranked, bad) ==
    LET out == InsertFeedItems([feed |-> feed_items,
                                created |-> feed_items_created,
                                dups |-> {}],
                               uid, reranked, bad, 0)
    IN  /\ faults + Cardinality(bad) <= MaxFaults
        /\ faults' = faults + Cardinality(bad)
        /\ feed_items' = out.feed
        /\ feed_items_created' = out.created
        /\ ranked' = (uid :> reranked) @@ ranked
        /\ rerank_log' =
             (uid :> [query |-> RerankQuery(users[ui]),
                      called |-> NeedsRerank(user_pool),
                      pool |-> Len(user_pool)]) @@ rerank_log
        /\ feed_faults' = (uid :> [bad |-> bad, dups |-> out.dups]) @@ feed_faults
        /\ unit_failures' = unit_failures \cup
             {[unit |-> "user", id |-> uid, at |-> "feed_insert"] : i \in bad}

\* the body of the user loop of step 6
RankUser ==
    /\ run_pc = "rank"
    /\ ui <= Len(users)
    /\ LET uid == users[ui].id
           paper_ids_for_user == user_paper_ids[uid]
           inPool == {pid \in paper_ids_for_user : pid \in DOMAIN processed_papers}
       IN  /\ paper_ids_for_user # {}
           /\ \E order \in Orders(inPool) :
                LET user_pool == [i \in 1..Len(order) |-> PoolEntry(order[i])]
                IN  \E reranked \in
                        (IF NeedsRerank(user_pool)
                         THEN RerankPapers(user_pool, TOP_MATCHES_PER_USER)
                         ELSE {user_pool}) :
                      \E bad \in SUBSET (1..Len(reranked)) :
                        SaveToFeed(uid, user_pool, reranked, bad)
    /\ ui' = ui + 1
    /\ UNCHANGED <<nonPipeVars, users_tbl, papers, paper_chunks, run_pc, run_no, fetched,
                   users, user_paper_ids, all_raw_papers, all_papers, pi,
                   processed_papers, papers_to_embed, full_texts, vectors,
                   batch_start, ei, all_chunks, result, fetch_log, profile_log,
                   present_at_exam, embed_calls, summary_calls,
                   insert_attempts, embed_failed, summary_failed>>

\* the return statement of run_daily_pipeline
FinishRun ==
    /\ run_pc = "rank"
    /\ ui > Len(users)
    /\ result' = [status |-> "success",
                  feed_items_created |-> feed_items_created]
    /\ run_pc' = "done"
    /\ UNCHANGED <<storeVars, nonPipeVars, run_no, fetched, faults, users, ui,
                   user_paper_ids, all_raw_papers, all_papers, pi,
                   processed_papers, papers_to_embed, full_texts, vectors,
                   batch_start, ei, all_chunks, feed_items_created, histVars>>

Next ==
    \/ StartRun
    \/ StartRunRaises
    \/ FetchUserSkip
    \/ FetchUser
    \/ GlobalDedup
    \/ ExamPaperRaises
    \/ ExamPaper
    \/ ExtractPdf
    \/ EmbedBatch
    \/ EnrichPaper
    \/ ChunkPapers
    \/ ChunkBatch
    \/ ChunksDone
    \/ RankUser
    \/ RankUserSkip
    \/ FinishRun

Spec == Init /\ [][Next]_vars

(***************************************************************************)
(* The triggers: POST /pipeline/run, the background task, the nightly job  *)
(***************************************************************************)
MaxTriggers == 3     \* POST requests and timer ticks in one behaviour

\* the outcomes of one execution of run_daily_pipeline
RunOutcomes == {"success", "raised"}

Executing(kind) ==
    {i \in 1..Len(sched_runs) :
        sched_runs[i].state = "executing" /\ sched_runs[i].kind = kind}

\* trigger_pipeline: refuse when the flag is set, else queue the task
trigger_pipeline ==
    /\ triggers < MaxTriggers
    /\ triggers' = triggers + 1
    /\ IF _pipeline_status.running
       THEN /\ last_response' = "already_running"
            /\ UNCHANGED sched_runs
       ELSE /\ sched_runs' = Append(sched_runs,
                                [kind |-> "manual", state |-> "queued"])
            /\ last_response' = "started"
    /\ UNCHANGED <<_pipeline_status, ddVars, pipeVars, svcVars, askVars, epVars>>

\* _run_pipeline_bg up to the call of run_daily_pipeline
BgStart ==
    /\ \E i \in 1..Len(sched_runs) :
         /\ sched_runs[i].kind = "manual"
         /\ sched_runs[i].state = "queued"
         /\ sched_runs' = [sched_runs EXCEPT ![i].state = "executing"]
    /\ _pipeline_status' = [_pipeline_status EXCEPT !.running = TRUE]
    /\ UNCHANGED <<last_response, triggers, ddVars, pipeVars, svcVars, askVars, epVars>>

\* _run_pipeline_bg after run_daily_pipeline returned or raised
BgFinish ==
    /\ \E i \in Executing("manual"), out \in RunOutcomes :
         /\ sched_runs' = [sched_runs EXCEPT ![i].state = "ended"]
         /\ _pipeline_status' =
              [running |-> FALSE,
               last_result |-> IF out = "success" THEN "success" ELSE "error"]
    /\ UNCHANGED <<last_response, triggers, ddVars, pipeVars, svcVars, askVars, epVars>>

\* the cron job of lifespan calls run_daily_pipeline itself; the scheduler
\* runs one instance of a job at a time
TimerFire ==
    /\ triggers < MaxTriggers
    /\ triggers' = triggers + 1
    /\ Executing("timer") = {}
    /\ sched_runs' = Append(sched_runs, [kind |-> "timer", state |-> "executing"])
    /\ UNCHANGED <<_pipeline_status, last_response, ddVars, pipeVars, svcVars, askVars, epVars>>

\* the run started by the cron job returns or raises
TimerFinish ==
    /\ \E i \in Executing("timer") :
         sched_runs' = [sched_runs EXCEPT ![i].state = "ended"]
    /\ UNCHANGED <<_pipeline_status, last_response, triggers, ddVars, pipeVars, svcVars, askVars, epVars>>

InitSched == SchedIdle /\ PipeIdle /\ DedupIdle /\ AskIdle /\ EpIdle /\ SvcIdle

NextSched ==
    \/ trigger_pipeline
    \/ BgStart
    \/ BgFinish
    \/ TimerFire
    \/ TimerFinish

SpecSched == InitSched /\ [][NextSched]_vars

(***************************************************************************)
(* Question-time retrieval (routers/ask.py)                                *)
(***************************************************************************)
MaxMatch == 2

OVERLAP_MIN == 3
TITLE_TOP_N == 3
CHUNK_MATCH_COUNT == 40
CHUNK_TOP_N == 20
PAPER_MATCH_COUNT == 50
QA_TOP_N == 25

\* the characters w.strip(".,;:!?\"'()-") removes at both ends of a word
Punct == {".", ",", ";", ":", "!", "?", "\"", "'", "(", ")", "-"}

\* str.split(): the maximal runs of characters that are not whitespace
Split(s) ==
    LET starts == {i \in 1..Len(s) :
                     /\ s[i] \notin Whitespace
                     /\ (i = 1 \/ s[i - 1] \in Whitespace)}
        last(i) == CHOOSE j \in i..Len(s) :
                     /\ \A k \in i..j : s[k] \notin Whitespace
                     /\ (j = Len(s) \/ s[j + 1] \in Whitespace)
        nth(k) == CHOOSE i \in starts :
                     Cardinality({j \in starts : j < i}) = k - 1
    IN  [k \in 1..Cardinality(starts) |-> SubSeq(s, nth(k), last(nth(k)))]

\* _STOP_WORDS, each word as its sequence of characters
_STOP_WORDS ==
    {<<"t","h","e">>, <<"a">>, <<"a","n">>, <<"a","n","d">>, <<"o","r">>,
     <<"b","u","t">>, <<"i","n">>, <<"o","n">>, <<"a","t">>, <<"t","o">>,
     <<"f","o","r">>, <<"o","f">>, <<"w","i","t","h">>, <<"b","y">>,
     <<"f","r","o","m">>, <<"i","s">>, <<"i","t">>, <<"t","h","i","s">>,
     <<"t","h","a","t">>, <<"a","r","e">>, <<"w","a","s">>,
     <<"w","e","r","e">>, <<"b","e","e","n">>, <<"b","e">>,
     <<"h","a","v","e">>, <<"h","a","s">>, <<"h","a","d">>, <<"d","o">>,
     <<"d","o","e","s">>, <<"d","i","d">>, <<"w","i","l","l">>,
     <<"w","o","u","l","d">>, <<"c","o","u","l","d">>,
     <<"s","h","o","u","l","d">>, <<"m","a","y">>, <<"m","i","g","h","t">>,
     <<"c","a","n">>, <<"s","h","a","l","l">>, <<"a","b","o","u","t">>,
     <<"i","n","t","o">>, <<"t","h","r","o","u","g","h">>,
     <<"d","u","r","i","n","g">>, <<"b","e","f","o","r","e">>,
     <<"a","f","t","e","r">>, <<"a","b","o","v","e">>,
     <<"b","e","l","o","w">>, <<"b","e","t","w","e","e","n">>,
     <<"o","u","t">>, <<"o","f","f">>, <<"o","v","e","r">>,
     <<"u","n","d","e","r">>, <<"a","g","a","i","n">>, <<"t","h","e","n">>,
     <<"h","e","r","e">>, <<"t","h","e","r","e">>, <<"w","h","e","n">>,
     <<"w","h","e","r","e">>, <<"w","h","y">>, <<"h","o","w">>,
     <<"a","l","l">>, <<"e","a","c","h">>, <<"e","v","e","r","y">>,
     <<"b","o","t","h">>, <<"f","e","w">>, <<"m","o","r","e">>,
     <<"m","o","s","t">>, <<"o","t","h","e","r">>, <<"s","o","m","e">>,
     <<"s","u","c","h">>, <<"n","o">>, <<"n","o","t">>, <<"o","n","l","y">>,
     <<"o","w","n">>, <<"s","a","m","e">>, <<"s","o">>, <<"t","h","a","n">>,
     <<"t","o","o">>, <<"v","e","r","y">>, <<"j","u","s","t">>,
     <<"e","x","p","l","a","i","n">>, <<"w","h","a","t">>,
     <<"p","a","p","e","r">>, <<"d","e","s","c","r","i","b","e">>,
     <<"t","e","l","l">>, <<"m","e">>,
     <<"s","u","m","m","a","r","i","z","e">>,
     <<"s","u","m","m","a","r","y">>, <<"o","v","e","r","v","i","e","w">>,
     <<"d","e","t","a","i","l","s">>, <<"u","s","i","n","g">>,
     <<"b","a","s","e","d">>, <<"i","t","s">>, <<"m","y">>,
     <<"y","o","u","r">>, <<"o","u","r">>, <<"t","h","e","i","r">>, <<"i">>,
     <<"w","e">>, <<"y","o","u">>, <<"t","h","e","y">>}

\* "Attention Is All You Need"
T_Attention ==
    <<"A", "t", "t", "e", "n", "t", "i", "o", "n", " ", "I", "s", " ", "A",
      "l", "l", " ", "Y", "o", "u", " ", "N", "e", "e", "d">>

\* "Graph Neural Networks for Molecules"
T_GraphNets ==
    <<"G", "r", "a", "p", "h", " ", "N", "e", "u", "r", "a", "l", " ", "N",
      "e", "t", "w", "o", "r", "k", "s", " ", "f", "o", "r", " ", "M", "o",
      "l", "e", "c", "u", "l", "e", "s">>

\* "explain attention is all you need to me"
Q_Explain ==
    <<"e", "x", "p", "l", "a", "i", "n", " ", "a", "t", "t", "e", "n", "t",
      "i", "o", "n", " ", "i", "s", " ", "a", "l", "l", " ", "y", "o", "u",
      " ", "n", "e", "e", "d", " ", "t", "o", " ", "m", "e">>

\* "what's 2+2"
Q_Math ==
    <<"w", "h", "a", "t", "'", "s", " ", "2", "+", "2">>

\* "How do graph neural networks work?"
Q_GraphNets ==
    <<"H", "o", "w", " ", "d", "o", " ", "g", "r", "a", "p", "h", " ", "n",
      "e", "u", "r", "a", "l", " ", "n", "e", "t", "w", "o", "r", "k", "s",
      " ", "w", "o", "r", "k", "?">>

\* q_words and t_words: the words of a text stripped of punctuation and
\* lower-cased, those longer than 2 characters that are not stop words
SignificantWords(text) ==
    LET words == {Lower(StripChars(w, Punct)) : w \in SeqToSet(Split(text))}
    IN  {w \in words : Len(w) > 2 /\ w \notin _STOP_WORDS}

\* the paper_id values of the feed rows of one user
FeedPaperIds(uid) ==
    {feed_items[i].paper_id :
        i \in {j \in 1..Len(feed_items) : feed_items[j].user_id = uid}}

\* the papers rows whose arxiv_id is in ids (papers.in_)
PapersIn(ids) == {papers[pid] : pid \in ids \cap DOMAIN papers}

\* a paper of the context: the columns the answer reads, the chunk indexes
\* joined into full_text, the pass it came from, the score of the reranker
ContextEntry(row, full_text, chunks, via) ==
    [arxiv_id |-> row.arxiv_id, title |-> row.title, full_text |-> full_text,
     chunks |-> chunks, via |-> via, score |-> "none"]

\* the tuple (ratio, overlap, paper) of one row, ratio kept as overlap/t_count
ScoreRow(q_words, row) ==
    LET t_words == SignificantWords(row.title)
    IN  [overlap |-> Cardinality(q_words \cap t_words),
         t_count |-> Cardinality(t_words),
         paper   |-> ContextEntry(row, row.full_text, <<>>, "title")]

\* one shared word is enough for a match
IsTitleMatch_anyOverlap(s) ==
    /\ s.t_count > 0
    /\ s.overlap >= 1
    /\ 5 * s.overlap >= 2 * s.t_count

\* `if not t_words: continue` and `if overlap >= 3 and ratio >= 0.4`
IsTitleMatch(s) ==
    /\ s.t_count > 0
    /\ s.overlap >= OVERLAP_MIN
    /\ 5 * s.overlap >= 2 * s.t_count

\* the key (-ratio, -overlap) of x sorts before the key of y
KeyBefore(x, y) ==
    \/ x.overlap * y.t_count > y.overlap * x.t_count
    \/ /\ x.overlap * y.t_count = y.overlap * x.t_count
       /\ x.overlap > y.overlap

RECURSIVE InsertByKey(_, _)
InsertByKey(sorted, x) ==
    IF sorted = <<>> THEN <<x>>
    ELSE IF KeyBefore(x, Head(sorted)) THEN <<x>> \o sorted
    ELSE <<Head(sorted)>> \o InsertByKey(Tail(sorted), x)

RECURSIVE SortScored(_)
\* scored.sort(key=...): a stable sort
SortScored(s) ==
    IF s = <<>> THEN <<>>
    ELSE InsertByKey(SortScored(SubSeq(s, 1, Len(s) - 1)), s[Len(s)])

\* _find_title_matches when no query raises, rows being papers_resp.data
_find_title_matches(q, rows) ==
    LET q_words == SignificantWords(q)
        each    == [i \in 1..Len(rows) |-> ScoreRow(q_words, rows[i])]
        scored  == SortScored(SelectSeq(each, IsTitleMatch))
        top     == Prefix(scored, TITLE_TOP_N)
    IN  [i \in 1..Len(top) |-> top[i].paper]

\* the lists of at most n distinct elements of S
Selections(S, n) ==
    UNION {Orders(T) : T \in {U \in SUBSET S : Cardinality(U) <= n}}

\* what match_paper_chunks can return for a user: chunks of the papers of
\* the user's feed, at most match_count of them
UserChunks(uid) ==
    {[paper_id |-> paper_chunks[i].paper_id,
      chunk_index |-> paper_chunks[i].chunk_index] :
        i \in {j \in 1..Len(paper_chunks) :
                 paper_chunks[j].paper_id \in FeedPaperIds(uid)}}

match_paper_chunks(uid) ==
    Selections(UserChunks(uid), Min(MaxMatch, CHUNK_MATCH_COUNT))

\* what match_user_papers can return for a user: papers of the user's feed
match_user_papers(uid) ==
    LET lists == Selections(PapersIn(FeedPaperIds(uid)),
                            Min(MaxMatch, PAPER_MATCH_COUNT))
    IN  {[i \in 1..Len(l) |-> ContextEntry(l[i], l[i].full_text, <<>>, "paper")] :
            l \in lists}

\* rerank_chunks: the chunks picked by the service, best first, or the first
\* top_n chunks in input order when the service is not available
rerank_chunks(chunks, top_n) ==
    LET k == Min(top_n, Len(chunks))
    IN  {Prefix(chunks, top_n)}
        \cup {[i \in 1..k |-> chunks[idx[i]]] :
                idx \in {f \in [1..k -> 1..Len(chunks)] :
                           \A a, b \in 1..k : a # b => f[a] # f[b]}}

\* on failure the papers are dropped instead of passed through
rerank_for_qa_emptyOnFailure(relevant, top_n) ==
    {<<>>} \cup (RerankPapers(relevant, top_n) \ {Prefix(relevant, top_n)})

\* rerank_for_qa is rerank_papers with the question as the query
rerank_for_qa(relevant, top_n) == RerankPapers(relevant, top_n)

RECURSIVE PaperIdsOrdered(_, _)
\* paper_ids_ordered: the paper ids of the chunks, by first occurrence
PaperIdsOrdered(acc, chunks) ==
    IF chunks = <<>> THEN acc
    ELSE LET pid == Head(chunks).paper_id
         IN  PaperIdsOrdered(IF pid \in SeqToSet(acc) THEN acc
                             ELSE Append(acc, pid), Tail(chunks))

\* best_chunks.sort(key=chunk_index) for one paper, as the list of indexes
BestChunks(pid, chunks) ==
    LET S == {chunks[i].chunk_index :
                i \in {j \in 1..Len(chunks) : chunks[j].paper_id = pid}}
    IN  CHOOSE s \in Orders(S) :
            \A i, j \in 1..Len(s) : i < j => s[i] < s[j]

\* the loop over paper_ids_ordered when no query raises: one entry per paper
\* that has a row, its full_text joined from its chunks
VectorFromChunks(reranked) ==
    LET ids == PaperIdsOrdered(<<>>, reranked)
        hasRow(pid) == PapersSelect(pid) # <<>>
        found == SelectSeq(ids, hasRow)
    IN  [i \in 1..Len(found) |->
            ContextEntry(PapersSelect(found[i])[1], "joined",
                         BestChunks(found[i], reranked), "chunk")]

RECURSIVE MergeInto(_, _)
\* one merge loop: append the papers whose arxiv_id is not seen yet
MergeInto(acc, lst) ==
    IF lst = <<>> THEN acc
    ELSE MergeInto(IF Head(lst).arxiv_id \in IdsOf(acc) THEN acc
                   ELSE Append(acc, Head(lst)), Tail(lst))

\* the vector results are merged before the title matches
MergeContext_vectorFirst(tm, vp) == MergeInto(MergeInto(<<>>, vp), tm)

\* step 3 of _retrieve_context: title matches first, then vector results
MergeContext(tm, vp) == MergeInto(MergeInto(<<>>, tm), vp)

\* ---- the stores a question is asked against ------------------------------
AskRow(id, title, source) ==
    [arxiv_id |-> id, title |-> title, source |-> source,
     abstract_vector |-> "vec", summary |-> "text", full_text |-> "text"]

P_Attention == AskRow("1706.03762", T_Attention, "arxiv")
P_GraphNets == AskRow("2401.00001", T_GraphNets, "arxiv")
P_Vision    == AskRow("oa:W9", T_Vision, "openalex")

AskCatalog == <<P_Attention, P_GraphNets, P_Vision>>

Questions == {Q_Explain, Q_Math, Q_GraphNets}

\* the feed rows of user uid for the catalog papers whose id is in ids
FeedRows(uid, ids) ==
    LET has(p) == p.arxiv_id \in ids
        ps == SelectSeq(AskCatalog, has)
    IN  [i \in 1..Len(ps) |->
            [user_id |-> uid, paper_id |-> ps[i].arxiv_id,
             relevance_score |-> <<"position", Len(ps) - (i - 1), Len(ps)>>]]

RECURSIVE ChunkRows(_)
\* the chunk rows of the papers whose ids are listed
ChunkRows(ids) ==
    IF ids = <<>> THEN <<>>
    ELSE [i \in 1..CHUNKS_PER_TEXT |->
            [paper_id |-> Head(ids), chunk_index |-> i - 1,
             chunk_vector |-> "vec"]] \o ChunkRows(Tail(ids))

\* the ids of the catalog papers that are in S, in catalog order
CatalogIds(S) ==
    LET has(p) == p.arxiv_id \in S
        ps == SelectSeq(AskCatalog, has)
    IN  [i \in 1..Len(ps) |-> ps[i].arxiv_id]

AskStore(S, F1, C) ==
    [papers |-> [pid \in S |-> AskCatalog[FirstPos(PosOfId(AskCatalog, pid))]],
     feed_items |-> FeedRows("u1", F1)
                      \o FeedRows("u2", S \cap {P_Attention.arxiv_id}),
     paper_chunks |-> ChunkRows(CatalogIds(C))]

\* stored papers S, the feed of u1 a subset of S, the feed of u2 the first
\* catalog paper when stored, chunks for some of the first two catalog papers
AskStores ==
    LET chunked == {P_Attention.arxiv_id, P_GraphNets.arxiv_id}
    IN  UNION {UNION {{AskStore(S, F1, C) : C \in SUBSET (S \cap chunked)} :
                        F1 \in SUBSET S} :
                 S \in SUBSET IdsOf(AskCatalog)}

\* _retrieve_context(question_vector, user_id, question) is called against
\* one of the stores
InitAsk ==
    /\ \E st \in AskStores :
         /\ papers = st.papers
         /\ feed_items = st.feed_items
         /\ paper_chunks = st.paper_chunks
    /\ users_tbl = [u \in UserIds |->
                      UserRow(u, <<"cs">>, "gnn for molecules", CachedProfile)]
    /\ run_pc = "idle"
    /\ run_no = 0
    /\ faults = 0
    /\ fetched = 0
    /\ result = [status |-> "none"]
    /\ RunIdle
    /\ ask_pc = "start"
    /\ question \in Questions
    /\ ask_user_id \in UserIds
    /\ title_failed = FALSE
    /\ title_matches = <<>>
    /\ chunk_raised = FALSE
    /\ chunk_results = <<>>
    /\ fallback_call = "none"
    /\ relevant_papers = <<>>
    /\ vector_papers = <<>>
    /\ merged = <<>>
    /\ ask_outcome = "none"
    /\ DedupIdle
    /\ SvcIdle
    /\ SchedIdle
    /\ EpIdle

\* step 1: _find_title_matches; a store query that raises gives []
TitleLookup ==
    /\ ask_pc = "start"
    /\ \E fails \in BOOLEAN,
          rows \in Orders(PapersIn(FeedPaperIds(ask_user_id))) :
         /\ title_failed' = fails
         /\ title_matches' = IF fails THEN <<>>
                             ELSE _find_title_matches(question, rows)
    /\ ask_pc' = "chunk_search"
    /\ UNCHANGED <<ddVars, pipeVars, svcVars, schedVars, epVars, question, ask_user_id,
                   chunk_raised, chunk_results, fallback_call,
                   relevant_papers, vector_papers, merged, ask_outcome>>

\* step 2: the chunk similarity query inside its try; `chunk_rpc.data or []`
ChunkSearch ==
    /\ ask_pc = "chunk_search"
    /\ \E raises \in BOOLEAN, data \in match_paper_chunks(ask_user_id) :
         LET res == IF raises THEN <<>> ELSE data
         IN  /\ chunk_raised' = raises
             /\ chunk_results' = res
             /\ ask_pc' = IF res # <<>> THEN "chunk_path" ELSE "fallback"
    /\ UNCHANGED <<ddVars, pipeVars, svcVars, schedVars, epVars, question, ask_user_id,
                   title_failed, title_matches, fallback_call,
                   relevant_papers, vector_papers, merged, ask_outcome>>

\* `if chunk_results`: rerank, group by paper, one papers query per paper
ChunkPath ==
    /\ ask_pc = "chunk_path"
    /\ \E reranked \in rerank_chunks(chunk_results, CHUNK_TOP_N) :
         vector_papers' = VectorFromChunks(reranked)
    /\ ask_pc' = "merge"
    /\ UNCHANGED <<ddVars, pipeVars, svcVars, schedVars, epVars, question, ask_user_id,
                   title_failed, title_matches, chunk_raised, chunk_results,
                   fallback_call, relevant_papers, merged, ask_outcome>>

\* one of the papers queries of the chunk branch raises: nothing catches it
ChunkPathRaises ==
    /\ ask_pc = "chunk_path"
    /\ ask_outcome' = "raised"
    /\ ask_pc' = "done"
    /\ UNCHANGED <<ddVars, pipeVars, svcVars, schedVars, epVars, question, ask_user_id,
                   title_failed, title_matches, chunk_raised, chunk_results,
                   fallback_call, relevant_papers, vector_papers, merged>>

\* the else branch: the paper similarity query, then rerank_for_qa
Fallback ==
    /\ ask_pc = "fallback"
    /\ \E data \in match_user_papers(ask_user_id) :
         /\ relevant_papers' = data
         /\ IF data # <<>>
            THEN vector_papers' \in rerank_for_qa(data, QA_TOP_N)
            ELSE vector_papers' = <<>>
    /\ fallback_call' = "returned"
    /\ ask_pc' = "merge"
    /\ UNCHANGED <<ddVars, pipeVars, svcVars, schedVars, epVars, question, ask_user_id,
                   title_failed, title_matches, chunk_raised, chunk_results,
                   merged, ask_outcome>>

\* the paper similarity query raises: nothing catches it
FallbackRaises ==
    /\ ask_pc = "fallback"
    /\ fallback_call' = "raised"
    /\ ask_outcome' = "raised"
    /\ ask_pc' = "done"
    /\ UNCHANGED <<ddVars, pipeVars, svcVars, schedVars, epVars, question, ask_user_id,
                   title_failed, title_matches, chunk_raised, chunk_results,
                   relevant_papers, vector_papers, merged>>

\* step 3 and the return
Merge ==
    /\ ask_pc = "merge"
    /\ merged' = MergeContext(title_matches, vector_papers)
    /\ ask_outcome' = "returned"
    /\ ask_pc' = "done"
    /\ UNCHANGED <<ddVars, pipeVars, svcVars, schedVars, epVars, question, ask_user_id,
                   title_failed, title_matches, chunk_raised, chunk_results,
                   fallback_call, relevant_papers, vector_papers>>

NextAsk ==
    \/ TitleLookup
    \/ ChunkSearch
    \/ ChunkPath
    \/ ChunkPathRaises
    \/ Fallback
    \/ FallbackRaises
    \/ Merge

SpecAsk == InitAsk /\ [][NextAsk]_vars

(***************************************************************************)
(* _find_title_matches on drawn feeds (routers/ask.py)                     *)
(***************************************************************************)
\* "Graph Neural Networks"
TT_Base ==
    <<"G", "r", "a", "p", "h", " ", "N", "e", "u", "r", "a", "l", " ", "N",
      "e", "t", "w", "o", "r", "k", "s">>

\* "How Graph Neural Networks Work"
TT_Work ==
    <<"H", "o", "w", " ", "G", "r", "a", "p", "h", " ", "N", "e", "u", "r",
      "a", "l", " ", "N", "e", "t", "w", "o", "r", "k", "s", " ", "W", "o",
      "r", "k">>

\* "Graph Neural Networks Work on Large Sparse Molecules Data"
TT_Long ==
    <<"G", "r", "a", "p", "h", " ", "N", "e", "u", "r", "a", "l", " ", "N",
      "e", "t", "w", "o", "r", "k", "s", " ", "W", "o", "r", "k", " ", "o",
      "n", " ", "L", "a", "r", "g", "e", " ", "S", "p", "a", "r", "s", "e",
      " ", "M", "o", "l", "e", "c", "u", "l", "e", "s", " ", "D", "a", "t",
      "a">>

\* "Graph Neural Networks for Large Sparse Molecules Graphs Data Sets"
TT_Diluted ==
    <<"G", "r", "a", "p", "h", " ", "N", "e", "u", "r", "a", "l", " ", "N",
      "e", "t", "w", "o", "r", "k", "s", " ", "f", "o", "r", " ", "L", "a",
      "r", "g", "e", " ", "S", "p", "a", "r", "s", "e", " ", "M", "o", "l",
      "e", "c", "u", "l", "e", "s", " ", "G", "r", "a", "p", "h", "s", " ",
      "D", "a", "t", "a", " ", "S", "e", "t", "s">>

\* "Neural Networks"
TT_Two ==
    <<"N", "e", "u", "r", "a", "l", " ", "N", "e", "t", "w", "o", "r", "k",
      "s">>

\* "On the Paper"
TT_StopOnly ==
    <<"O", "n", " ", "t", "h", "e", " ", "P", "a", "p", "e", "r">>

\* the papers a feed is drawn from: titles that share three or four words
\* with Q_GraphNets at several ratios, two words, no significant word
TitleCatalog ==
    <<AskRow("t1", TT_Base, "arxiv"), AskRow("t2", TT_Work, "arxiv"),
      AskRow("t3", T_GraphNets, "arxiv"), AskRow("t4", TT_Long, "openalex"),
      AskRow("t5", TT_Diluted, "pubmed"), AskRow("t6", TT_Two, "arxiv"),
      AskRow("t7", TT_StopOnly, "arxiv")>>

\* the question is asked by u1 against a store whose papers are a part of
\* the catalog, all of them in the feed of u1
InitTitle ==
    /\ \E S \in SUBSET (1..Len(TitleCatalog)) :
         LET keep(p) == \E i \in S : TitleCatalog[i] = p
             ps == SelectSeq(TitleCatalog, keep)
         IN  /\ papers = [pid \in IdsOf(ps) |->
                            ps[FirstPos(PosOfId(ps, pid))]]
             /\ feed_items =
                  [i \in 1..Len(ps) |->
                     [user_id |-> "u1", paper_id |-> ps[i].arxiv_id,
                      relevance_score |->
                          <<"position", Len(ps) - (i - 1), Len(ps)>>]]
    /\ paper_chunks = <<>>
    /\ users_tbl = [u \in UserIds |->
                      UserRow(u, <<"cs">>, "gnn for molecules", CachedProfile)]
    /\ run_pc = "idle"
    /\ run_no = 0
    /\ faults = 0
    /\ fetched = 0
    /\ result = [status |-> "none"]
    /\ RunIdle
    /\ ask_pc = "start"
    /\ question \in {Q_GraphNets, Q_Math}
    /\ ask_user_id = "u1"
    /\ title_failed = FALSE
    /\ title_matches = <<>>
    /\ chunk_raised = FALSE
    /\ chunk_results = <<>>
    /\ fallback_call = "none"
    /\ relevant_papers = <<>>
    /\ vector_papers = <<>>
    /\ merged = <<>>
    /\ ask_outcome = "none"
    /\ DedupIdle
    /\ SvcIdle
    /\ SchedIdle
    /\ EpIdle

NextTitle == TitleLookup

SpecTitle == InitTitle /\ [][NextTitle]_vars

(***************************************************************************)
(* The ask endpoints (routers/ask.py)                                      *)
(***************************************************************************)
MaxTokens == 2

Endpoints == {"ask_question", "ask_multimodal", "ask_stream",
              "ask_stream_multimodal"}

Streaming(ep) == ep \in {"ask_stream", "ask_stream_multimodal"}
Multimodal(ep) == ep \in {"ask_multimodal", "ask_stream_multimodal"}

\* str(e) of the exceptions raised inside the collaborators
X_Store == "APIError: connection to the store refused"
X_File == "FileDataError: cannot open broken document"
X_Generation == "APIError: completion request failed"
InternalTexts == {X_Store, X_File, X_Generation}

\* str(e) of HTTPException(status_code=500, detail="Failed to embed question.")
X_EmbedHttp == "500: Failed to embed question."

\* the uploads of a multimodal request: none, an image, a text file, a file
\* whose processor raises; process_file gives the content of the text file
FileKinds == {"none", "image", "text", "bad"}
FileText == T_GraphNets

\* result["content"][:2000] joined and cut to 500 characters
FILE_SNIPPET == 500

\* combined_query = f"{question} {extra}".strip() when a file gave text
CombinedQuery(q, files) ==
    IF files = "text"
    THEN Strip(q \o <<" ">> \o Prefix(FileText, FILE_SNIPPET))
    ELSE q

\* one server-sent event: _sse(event, data)
Sse(event, text, n) == [event |-> event, text |-> text, n |-> n]

\* what a handler gives back: a return value or an HTTP error
Resp(kind, detail, sources) ==
    [kind |-> kind, detail |-> detail, sources |-> sources]

\* the except branch drops the exception
StreamExcept_silent(text) == <<>>

\* `except Exception as e: yield _sse("error", {"message": str(e)})`
StreamExcept(text) == <<Sse("error", text, 0)>>

\* `except Exception as e: raise HTTPException(status_code=500, detail=str(e))`
HttpExcept(text) == Resp("http_500", text, 0)

\* follow-ups are sent to retrieval as well
NeedsRetrieval_followUp(i) == i # "general"

\* the two early returns of the handlers: general and follow_up skip retrieval
NeedsRetrieval(i) == i \notin {"general", "follow_up"}

\* classify_query_intent: the word of the model, or the default of its
\* except branch
Intents(has_history) ==
    {"retrieval", "follow_up", "general"}
      \cup {IF has_history THEN "follow_up" ELSE "retrieval"}

\* the stores the endpoints are exercised against
EpStores ==
    {AskStore({}, {}, {}),
     AskStore({P_GraphNets.arxiv_id}, {P_GraphNets.arxiv_id},
              {P_GraphNets.arxiv_id}),
     AskStore({P_GraphNets.arxiv_id, P_Attention.arxiv_id},
              {P_GraphNets.arxiv_id, P_Attention.arxiv_id}, {})}

\* one request to one of the four endpoints
InitEp ==
    /\ \E st \in EpStores :
         /\ papers = st.papers
         /\ feed_items = st.feed_items
         /\ paper_chunks = st.paper_chunks
    /\ users_tbl = [u \in UserIds |->
                      UserRow(u, <<"cs">>, "gnn for molecules", CachedProfile)]
    /\ run_pc = "idle"
    /\ run_no = 0
    /\ faults = 0
    /\ fetched = 0
    /\ result = [status |-> "none"]
    /\ RunIdle
    /\ AskIdle
    /\ DedupIdle
    /\ SvcIdle
    /\ SchedIdle
    /\ endpoint \in Endpoints
    /\ req_history \in {<<>>, <<"earlier message">>}
    /\ IF Multimodal(endpoint)
       THEN /\ req_question \in {<<>>, Q_GraphNets}
            /\ req_files \in FileKinds
            /\ ep_pc = "files"
       ELSE /\ req_question \in {Q_Math, Q_GraphNets}
            /\ req_files = "none"
            /\ ep_pc = "classify"
    /\ intent = "none"
    /\ calls = {}
    /\ gen_calls = <<>>
    /\ events = <<>>
    /\ responses = <<>>

\* the request has ended with response r (a return or an HTTP error)
Respond(r) ==
    /\ responses' = Append(responses, r)
    /\ ep_pc' = "ended"

\* the generator has ended after yielding evs
EndStream(evs) ==
    /\ events' = events \o evs
    /\ ep_pc' = "ended"

\* the multimodal handlers up to the embedding: read and process the
\* uploads, build combined_query, refuse an empty one
ReadFiles ==
    /\ ep_pc = "files"
    /\ calls' = IF req_files = "none" THEN calls
                ELSE calls \cup {"process_file"}
    /\ IF req_files = "bad"
       THEN IF endpoint = "ask_multimodal"
            THEN /\ Respond(HttpExcept(X_File))
                 /\ UNCHANGED events
            ELSE \* ask_stream_multimodal: the loop is outside every try
                 /\ Respond(Resp("unhandled", "Internal Server Error", 0))
                 /\ UNCHANGED events
       ELSE IF CombinedQuery(req_question, req_files) = <<>>
            THEN IF endpoint = "ask_multimodal"
                 THEN /\ Respond(Resp("answer", "Please provide a question or attach a file to analyze.", 0))
                      /\ UNCHANGED events
                 ELSE /\ EndStream(<<Sse("error", "Provide a question or attach a file.", 0)>>)
                      /\ UNCHANGED responses
            ELSE /\ ep_pc' = "embed"
                 /\ UNCHANGED <<events, responses>>
    /\ UNCHANGED <<ddVars, pipeVars, svcVars, schedVars, askVars, endpoint,
                   req_question, req_files, req_history, intent, gen_calls>>

\* ask_question and ask_stream: classify_query_intent and the branch on it
Classify ==
    /\ ep_pc = "classify"
    /\ calls' = calls \cup {"classify_query_intent"}
    /\ \E i \in Intents(req_history # <<>>) :
         /\ intent' = i
         /\ ep_pc' = IF NeedsRetrieval(i) THEN "embed" ELSE "generate"
         /\ events' =
              IF ~Streaming(endpoint) THEN events
              ELSE events \o <<Sse("stage", "classifying", 0)>>
                     \o (IF NeedsRetrieval(i) THEN <<>>
                         ELSE <<Sse("stage", "generating", 0),
                                Sse("sources", "", 0)>>)
    /\ UNCHANGED <<ddVars, pipeVars, svcVars, schedVars, askVars, endpoint,
                   req_question, req_files, req_history, gen_calls, responses>>

\* get_embedding of the query; [] means failure; then _retrieve_context is
\* entered
Embed ==
    /\ ep_pc = "embed"
    /\ calls' = calls \cup {"get_embedding"}
    /\ \E ok \in BOOLEAN :
         LET searching == IF Streaming(endpoint)
                          THEN <<Sse("stage", "searching", 0)>> ELSE <<>>
         IN  IF ok
             THEN /\ ask_pc' = "start"
                  /\ question' = CombinedQuery(req_question, req_files)
                  /\ ask_user_id' = "u1"
                  /\ ep_pc' = "retrieve"
                  /\ events' = events \o searching
                  /\ UNCHANGED responses
             ELSE /\ IF Streaming(endpoint)
                     THEN /\ EndStream(searching \o
                                <<Sse("error", "Failed to embed question.", 0)>>)
                          /\ UNCHANGED responses
                     ELSE /\ Respond(HttpExcept(X_EmbedHttp))
                          /\ UNCHANGED events
                  /\ UNCHANGED <<ask_pc, question, ask_user_id>>
    /\ UNCHANGED <<ddVars, pipeVars, svcVars, schedVars, title_failed, title_matches,
                   chunk_raised, chunk_results, fallback_call,
                   relevant_papers, vector_papers, merged, ask_outcome,
                   endpoint, req_question, req_files, req_history, intent,
                   gen_calls>>

\* _retrieve_context raised: the except branch of the handler
RetrievalRaised ==
    /\ ep_pc = "retrieve"
    /\ ask_pc = "done"
    /\ ask_outcome = "raised"
    /\ IF Streaming(endpoint)
       THEN EndStream(StreamExcept(X_Store)) /\ UNCHANGED responses
       ELSE Respond(HttpExcept(X_Store)) /\ UNCHANGED events
    /\ UNCHANGED <<ddVars, pipeVars, svcVars, schedVars, askVars, endpoint,
                   req_question, req_files, req_history, intent, calls,
                   gen_calls>>

\* _retrieve_context returned: the empty-context test of ask_question, the
\* graph context, the sources event
RetrievalReturned ==
    /\ ep_pc = "retrieve"
    /\ ask_pc = "done"
    /\ ask_outcome = "returned"
    /\ IF endpoint = "ask_question" /\ merged = <<>>
       THEN /\ Respond(Resp("no_corpus", "You don't have any papers in your corpus yet! Wait for the daily pipeline to run.", 0))
            /\ UNCHANGED <<events, calls>>
       ELSE /\ ep_pc' = "generate"
            /\ calls' = IF Streaming(endpoint) /\ merged = <<>> THEN calls
                        ELSE calls \cup {"_get_graph_context"}
            /\ events' =
                 IF Streaming(endpoint)
                 THEN events \o <<Sse("stage", "graphing", 0),
                                  Sse("sources", "", Len(merged)),
                                  Sse("stage", "generating", 0)>>
                 ELSE events
            /\ UNCHANGED responses
    /\ UNCHANGED <<ddVars, pipeVars, svcVars, schedVars, askVars, endpoint,
                   req_question, req_files, req_history, intent, gen_calls>>

\* the context handed to the answer generation
GenContext == IF intent \in {"general", "follow_up"} THEN <<>> ELSE merged

GenCall(fn) == [fn |-> fn, context |-> GenContext, history |-> req_history]

\* answer_question_with_context, answer_question_multimodal: the answer of
\* the model, the fixed answer of their except branch, or an exception
Generate ==
    /\ ep_pc = "generate"
    /\ ~Streaming(endpoint)
    /\ gen_calls' = Append(gen_calls,
                       GenCall(IF Multimodal(endpoint)
                               THEN "answer_question_multimodal"
                               ELSE "answer_question_with_context"))
    /\ \E out \in {"answer", "sorry", "raise"} :
         Respond(CASE out = "answer" ->
                        Resp("answer", "text of the model", Len(GenContext))
                   [] out = "sorry" ->
                        Resp("answer", "Sorry, I encountered an error while analyzing your papers.", 0)
                   [] out = "raise" -> HttpExcept(X_Generation))
    /\ UNCHANGED <<ddVars, pipeVars, svcVars, schedVars, askVars, endpoint,
                   req_question, req_files, req_history, intent, calls, events>>

\* the call of the streaming generation is made when its first item is asked
StreamCalled ==
    IF gen_calls # <<>> THEN gen_calls
    ELSE <<GenCall(IF Multimodal(endpoint) THEN "stream_answer_multimodal"
                   ELSE "stream_answer_with_context")>>

TokensOut == Cardinality({i \in 1..Len(events) : events[i].event = "token"})

\* `for tok in stream_answer_...: yield _sse("token", {"t": tok})`
StreamToken ==
    /\ ep_pc = "generate"
    /\ Streaming(endpoint)
    /\ TokensOut < MaxTokens
    /\ gen_calls' = StreamCalled
    /\ events' = Append(events, Sse("token", "t", TokensOut + 1))
    /\ UNCHANGED <<ddVars, pipeVars, svcVars, schedVars, askVars, endpoint, ep_pc,
                   req_question, req_files, req_history, intent, calls,
                   responses>>

\* the generation is exhausted: `yield _sse("done", {})`
StreamDone ==
    /\ ep_pc = "generate"
    /\ Streaming(endpoint)
    /\ gen_calls' = StreamCalled
    /\ EndStream(<<Sse("done", "", 0)>>)
    /\ UNCHANGED <<ddVars, pipeVars, svcVars, schedVars, askVars, endpoint,
                   req_question, req_files, req_history, intent, calls,
                   responses>>

\* the generation raises: the except branch of generate()
StreamRaises ==
    /\ ep_pc = "generate"
    /\ Streaming(endpoint)
    /\ gen_calls' = StreamCalled
    /\ EndStream(StreamExcept(X_Generation))
    /\ UNCHANGED <<ddVars, pipeVars, svcVars, schedVars, askVars, endpoint,
                   req_question, req_files, req_history, intent, calls,
                   responses>>

\* the steps of _retrieve_context, made inside a request
RetrievalStep ==
    /\ ep_pc = "retrieve"
    /\ \/ TitleLookup
       \/ ChunkSearch
       \/ ChunkPath
       \/ ChunkPathRaises
       \/ Fallback
       \/ FallbackRaises
       \/ Merge

NextEp ==
    \/ ReadFiles
    \/ Classify
    \/ Embed
    \/ RetrievalStep
    \/ RetrievalRaised
    \/ RetrievalReturned
    \/ Generate
    \/ StreamToken
    \/ StreamDone
    \/ StreamRaises

SpecEp == InitEp /\ [][NextEp]_vars

\* a handler that has started runs until it returns or raises
SpecEpLive == SpecEp /\ WF_vars(NextEp)

(***************************************************************************)
(* Chunking of a full text (services/chunking_service.py)                  *)
(*                                                                         *)
(* A text is a list of fragments.  A fragment is a piece of text that no   *)
(* split of the service cuts; it carries its token count and the separator *)
(* that precedes it: "para" (a blank line), "line" (a newline inside a     *)
(* paragraph, not after a sentence end) or "sent" (a sentence end followed *)
(* by a space).  _count_tokens of a joined text is taken as the sum of the *)
(* token counts of its fragments.  A part (paragraph, line or sentence) and *)
(* a chunk are lists of positions of fragments in the text.                *)
(***************************************************************************)
MaxUnits == 4

CHUNK_SIZE_TOKENS == 512
CHUNK_OVERLAP_TOKENS == 50
MIN_CHUNK_TOKENS == 50

\* the token counts a fragment can have: under the floor, an ordinary
\* paragraph, more than a chunk
UnitTokens == {30, 300, 600}

Separators == {"para", "line", "sent"}

RECURSIVE SumTokens(_, _)
\* the tokens of the fragments at the positions idxs of text
SumTokens(text, idxs) ==
    IF idxs = <<>> THEN 0
    ELSE text[Head(idxs)].tokens + SumTokens(text, Tail(idxs))

\* _count_tokens of the whole text
_count_tokens(text) == SumTokens(text, [i \in 1..Len(text) |-> i])

\* re.split / str.split at one kind of separator: the part idxs cut before
\* every fragment (but its first) that the separator sep precedes
SplitAt(text, idxs, sep) ==
    LET n == Len(idxs)
        starts == {k \in 1..n : k = 1 \/ text[idxs[k]].sep = sep}
        end(k) == CHOOSE e \in k..n :
                      /\ \A j \in (k + 1)..e : j \notin starts
                      /\ (e = n \/ e + 1 \in starts)
        nth(m) == CHOOSE k \in starts : Cardinality({j \in starts : j < k}) = m - 1
    IN  [m \in 1..Cardinality(starts) |-> SubSeq(idxs, nth(m), end(nth(m)))]

RECURSIVE SubSplit(_, _)
\* the loop of _split_into_paragraphs: a paragraph of more than twice the
\* chunk size is split on single newlines
SubSplit(text, paragraphs) ==
    IF paragraphs = <<>> THEN <<>>
    ELSE LET para == Head(paragraphs)
         IN  (IF SumTokens(text, para) > CHUNK_SIZE_TOKENS * 2
              THEN SplitAt(text, para, "line")
              ELSE <<para>>) \o SubSplit(text, Tail(paragraphs))

_split_into_paragraphs(text) ==
    IF text = <<>> THEN <<>>
    ELSE SubSplit(text, SplitAt(text, [i \in 1..Len(text) |-> i], "para"))

RECURSIVE OverlapLoop(_, _, _, _, _)
\* the loop `for part in reversed(parts)` of _get_overlap_parts, at part i
OverlapLoop(text, parts, target_tokens, i, acc) ==
    IF i = 0 THEN acc.overlap
    ELSE LET pt == SumTokens(text, parts[i])
         IN  IF acc.tokens_so_far + pt > target_tokens /\ acc.overlap # <<>>
             THEN acc.overlap
             ELSE OverlapLoop(text, parts, target_tokens, i - 1,
                      [overlap |-> <<parts[i]>> \o acc.overlap,
                       tokens_so_far |-> acc.tokens_so_far + pt])

_get_overlap_parts(text, parts, target_tokens) ==
    IF target_tokens <= 0 THEN <<>>
    ELSE OverlapLoop(text, parts, target_tokens, Len(parts),
                     [overlap |-> <<>>, tokens_so_far |-> 0])

\* chunks.append(join(current_parts)), then the overlap becomes the buffer
FlushWithOverlap(text, st, overlap) ==
    LET overlap_parts == _get_overlap_parts(text, st.current_parts, overlap)
    IN  [chunks |-> Append(st.chunks, Flatten(st.current_parts)),
         current_parts |-> overlap_parts,
         current_tokens |-> SumTokens(text, Flatten(overlap_parts))]

\* current_parts.append(part); current_tokens += tokens
AddPart(text, st, part) ==
    [st EXCEPT !.current_parts = Append(@, part),
               !.current_tokens = @ + SumTokens(text, part)]

RECURSIVE SentenceLoop(_, _, _, _, _)
\* the loop over the sentences of an oversized paragraph
SentenceLoop(text, st, sentences, chunk_size, overlap) ==
    IF sentences = <<>> THEN st
    ELSE LET sent == Head(sentences)
             st1 == IF /\ st.current_tokens + SumTokens(text, sent) > chunk_size
                       /\ st.current_parts # <<>>
                    THEN FlushWithOverlap(text, st, overlap)
                    ELSE st
         IN  SentenceLoop(text, AddPart(text, st1, sent), Tail(sentences),
                          chunk_size, overlap)

\* one round of the loop over the paragraphs
ParagraphStep(text, st, para, chunk_size, overlap) ==
    LET para_tokens == SumTokens(text, para)
    IN  IF para_tokens > chunk_size
        THEN LET flushed ==
                     IF st.current_parts # <<>>
                     THEN [chunks |-> Append(st.chunks, Flatten(st.current_parts)),
                           current_parts |-> <<>>, current_tokens |-> 0]
                     ELSE st
             IN  SentenceLoop(text, flushed, SplitAt(text, para, "sent"),
                              chunk_size, overlap)
        ELSE LET st1 == IF /\ st.current_tokens + para_tokens > chunk_size
                           /\ st.current_parts # <<>>
                        THEN FlushWithOverlap(text, st, overlap)
                        ELSE st
             IN  AddPart(text, st1, para)

RECURSIVE ParagraphLoop(_, _, _, _, _)
ParagraphLoop(text, st, paragraphs, chunk_size, overlap) ==
    IF paragraphs = <<>> THEN st
    ELSE ParagraphLoop(text,
                       ParagraphStep(text, st, Head(paragraphs), chunk_size, overlap),
                       Tail(paragraphs), chunk_size, overlap)

\* the raw chunks of a list of paragraphs, each a list of fragments
_merge_paragraphs_into_chunks(text, paragraphs) ==
    IF paragraphs = <<>> THEN <<>>
    ELSE LET st == ParagraphLoop(text,
                       [chunks |-> <<>>, current_parts |-> <<>>,
                        current_tokens |-> 0],
                       paragraphs, CHUNK_SIZE_TOKENS, CHUNK_OVERLAP_TOKENS)
         IN  IF st.current_parts # <<>>
             THEN Append(st.chunks, Flatten(st.current_parts))
             ELSE st.chunks

\* raw_chunks, or <<>> when the text is empty or under the floor
RawChunks(text) ==
    IF text = <<>> \/ _count_tokens(text) < MIN_CHUNK_TOKENS THEN <<>>
    ELSE _merge_paragraphs_into_chunks(text, _split_into_paragraphs(text))

\* the positions in raw_chunks of the chunks that pass the floor
KeptPositions(text) ==
    LET raw == RawChunks(text)
        pos == [i \in 1..Len(raw) |-> i]
        big(i) == SumTokens(text, raw[i]) >= MIN_CHUNK_TOKENS
    IN  SelectSeq(pos, big)

\* chunk_index is the position of the chunk before the tiny chunks are
\* filtered out
chunk_paper_rawIndex(full_text, paper_id, title) ==
    LET raw  == RawChunks(full_text)
        kept == KeptPositions(full_text)
    IN  [i \in 1..Len(kept) |->
            [paper_id |-> paper_id, chunk_index |-> kept[i] - 1,
             chunk_text |-> [title_prefix |-> title, body |-> raw[kept[i]]]]]

\* chunk_paper: the dicts of the chunks that pass the floor, numbered by
\* enumerate; chunk_text is kept as the title prefix and the fragments
chunk_paper(full_text, paper_id, title) ==
    LET raw  == RawChunks(full_text)
        kept == KeptPositions(full_text)
    IN  [i \in 1..Len(kept) |->
            [paper_id |-> paper_id, chunk_index |-> i - 1,
             chunk_text |-> [title_prefix |-> title, body |-> raw[kept[i]]]]]

RECURSIVE batch_chunk_papers(_)
\* papers without a full text are skipped
batch_chunk_papers(ps) ==
    IF ps = <<>> THEN <<>>
    ELSE LET paper == Head(ps)
         IN  (IF paper.full_text = <<>> THEN <<>>
              ELSE chunk_paper(paper.full_text, paper.arxiv_id, paper.title))
             \o batch_chunk_papers(Tail(ps))

\* ---- the texts that are chunked ------------------------------------------
\* the texts of n fragments; the separator of the first one is not read
TextsOfLen(n) ==
    {t \in [1..n -> [sep : Separators, tokens : UnitTokens]] : t[1].sep = "para"}

Texts == UNION {TextsOfLen(n) : n \in 1..MaxUnits}

\* the other paper of a batch: one without a full text, one with a text of
\* one oversized paragraph after a short one
OtherPapers ==
    {[arxiv_id |-> "oa:W9", title |-> "none", full_text |-> <<>>],
     [arxiv_id |-> "oa:W9", title |-> "none",
      full_text |-> <<[sep |-> "para", tokens |-> 30],
                      [sep |-> "para", tokens |-> 600]>>]}

InitChunk ==
    /\ PipeIdle /\ DedupIdle /\ SchedIdle /\ AskIdle /\ EpIdle /\ FetchIdle /\ RrIdle
    /\ chunk_pc = "start"
    /\ chunk_input \in [arxiv_id : {"2401.00001"}, title : {"none", "title"},
                        full_text : Texts \cup {<<>>}]
    /\ \E other \in OtherPapers :
           chunk_batch \in {<<chunk_input, other>>, <<other, chunk_input>>}
    /\ chunk_result = <<>>
    /\ batch_result = <<>>

\* a call of chunk_paper
ChunkPaper ==
    /\ chunk_pc = "start"
    /\ chunk_result' = chunk_paper(chunk_input.full_text, chunk_input.arxiv_id,
                                   chunk_input.title)
    /\ chunk_pc' = "chunked"
    /\ UNCHANGED <<ddVars, pipeVars, schedVars, askVars, epVars, fetchVars, rrVars,
                   chunk_input,
                   chunk_batch, batch_result>>

\* a call of batch_chunk_papers
BatchChunk ==
    /\ chunk_pc = "chunked"
    /\ batch_result' = batch_chunk_papers(chunk_batch)
    /\ chunk_pc' = "done"
    /\ UNCHANGED <<ddVars, pipeVars, schedVars, askVars, epVars, fetchVars, rrVars,
                   chunk_input,
                   chunk_batch, chunk_result>>

NextChunk == ChunkPaper \/ BatchChunk

SpecChunk == InitChunk /\ [][NextChunk]_vars

(***************************************************************************)
(* The query loops of the four providers (arxiv_service.py,               *)
(* semantic_scholar_service.py, openalex_service.py, pubmed_service.py)    *)
(*                                                                         *)
(* A fetch walks a list of queries (for Semantic Scholar and OpenAlex the  *)
(* query/field and query/concept pairs, for PubMed the query/MeSH-term     *)
(* pairs) and issues HTTP requests.  The lists are short enough that the   *)
(* test len(papers) >= max_results never ends a loop early.                *)
(***************************************************************************)
MaxQueries == 2      \* queries in the list of one fetch
MaxFailures == 4     \* requests that fail in one call
MaxCalls == 2        \* calls of the fetch in one behaviour

ARXIV_ATTEMPTS == 3
S2_MAX_RETRIES == 3
PER_SOURCE_LIMIT == 30
OA_PER_PAGE == 50

FetchProviders == {"arxiv", "semantic_scholar", "openalex", "pubmed"}

\* how a request ends: a 200 response with results, a timeout or another
\* exception of the HTTP library, a 429 response, another non-200 response
RequestOutcomes == {"ok", "timeout", "http_429", "http_500"}

Request(q, kind, outcome) == [query |-> q, request |-> kind, outcome |-> outcome]

\* the failed requests issued so far
FailuresIn(log) == Cardinality({i \in 1..Len(log) : log[i].outcome # "ok"})

\* the outcomes a request can have now
OutcomesNow ==
    IF FailuresIn(fp_log) < MaxFailures THEN RequestOutcomes ELSE {"ok"}

InitFetch ==
    /\ PipeIdle /\ DedupIdle /\ SchedIdle /\ AskIdle /\ EpIdle /\ ChunkIdle
    /\ RrIdle
    /\ fp_provider \in FetchProviders
    /\ fp_pc = "loop"
    /\ fp_qi = 1
    /\ fp_attempt = 0
    /\ s2_retries = 0
    /\ fp_log = <<>>
    /\ fp_calls = 1
    /\ oa_path \in (IF fp_provider = "openalex"
                    THEN {"search", "fallback"} ELSE {"none"})
    /\ oa_page = (IF oa_path = "fallback" THEN 1 ELSE 0)
    /\ oa_fetched = 0
    /\ oa_papers = 0
    /\ oa_pages = <<>>

\* arXiv, _fetch_with_queries: one round of `for attempt in range(3)`.
\* urlopen raises on a timeout and on every HTTP error status
ArxivRequest ==
    /\ fp_provider = "arxiv"
    /\ fp_pc = "loop"
    /\ fp_qi <= MaxQueries
    /\ \E o \in OutcomesNow :
         /\ fp_log' = Append(fp_log, Request(fp_qi, "search", o))
         /\ IF o # "ok" /\ fp_attempt + 1 < ARXIV_ATTEMPTS
            THEN fp_attempt' = fp_attempt + 1 /\ fp_qi' = fp_qi
            ELSE fp_attempt' = 0 /\ fp_qi' = fp_qi + 1
    /\ UNCHANGED <<ddVars, pipeVars, schedVars, askVars, epVars, chunkVars, rrVars,
                   fp_provider, fp_calls, fp_pc, s2_retries, oaVars>>

\* Semantic Scholar, fetch_recent_papers: one round of the loop over
\* query_pairs
S2Request ==
    /\ fp_provider = "semantic_scholar"
    /\ fp_pc = "loop"
    /\ fp_qi <= MaxQueries
    /\ \E o \in OutcomesNow :
         /\ fp_log' = Append(fp_log, Request(fp_qi, "search", o))
         /\ CASE o = "http_429" ->
                   IF s2_retries + 1 > S2_MAX_RETRIES
                   THEN s2_retries' = 0 /\ fp_pc' = "done" /\ fp_qi' = fp_qi
                   ELSE /\ s2_retries' = s2_retries + 1
                        /\ fp_qi' = fp_qi + 1
                        /\ fp_pc' = fp_pc
              [] o = "timeout" ->
                   fp_qi' = fp_qi + 1 /\ UNCHANGED <<s2_retries, fp_pc>>
              [] OTHER ->
                   s2_retries' = 0 /\ fp_qi' = fp_qi + 1 /\ fp_pc' = fp_pc
    /\ UNCHANGED <<ddVars, pipeVars, schedVars, askVars, epVars, chunkVars, rrVars,
                   fp_provider, fp_calls, fp_attempt, oaVars>>

\* OpenAlex, fetch_recent_papers with search queries: one round of the loop
\* over the concepts of a query; every failure ends in `continue`
OpenAlexRequest ==
    /\ fp_provider = "openalex"
    /\ oa_path = "search"
    /\ fp_pc = "loop"
    /\ fp_qi <= MaxQueries
    /\ \E o \in OutcomesNow :
         fp_log' = Append(fp_log, Request(fp_qi, "search", o))
    /\ fp_qi' = fp_qi + 1
    /\ UNCHANGED <<ddVars, pipeVars, schedVars, askVars, epVars, chunkVars, rrVars,
                   fp_provider, fp_calls, fp_pc, fp_attempt, s2_retries, oaVars>>

\* per_concept_limit = max(50, max_results // len(concept_ids))
per_concept_limit(max_results, n_concepts) ==
    LET share == max_results \div n_concepts
    IN  IF share > OA_PER_PAGE THEN share ELSE OA_PER_PAGE

\* the numbers of works a page of at most per_page works can hold
ResultCounts(per_page) == {r \in {0, 20, 50} : r <= per_page}

\* the loop over the concepts goes to the next concept, or ends when
\* len(papers) >= max_results
NextConcept(n_papers) ==
    /\ fp_qi' = (IF n_papers >= PER_SOURCE_LIMIT THEN MaxQueries + 1
                 ELSE fp_qi + 1)
    /\ oa_page' = 1
    /\ oa_fetched' = 0

\* a 429 response in the fallback loop: `continue`, with page and fetched
\* as they were
OaFallback429 == UNCHANGED <<fp_qi, oa_page, oa_fetched>>

\* OpenAlex, fetch_recent_papers without search queries: one round of the
\* while loop of a concept. results are the works of the page, added the
\* works of them that parse and are new
OpenAlexFallbackRequest ==
    /\ fp_provider = "openalex"
    /\ oa_path = "fallback"
    /\ fp_pc = "loop"
    /\ fp_qi <= MaxQueries
    /\ LET limit == per_concept_limit(PER_SOURCE_LIMIT, MaxQueries)
           per_page == IF OA_PER_PAGE < limit - oa_fetched THEN OA_PER_PAGE
                       ELSE limit - oa_fetched
       IN  \E o \in OutcomesNow :
             /\ fp_log' = Append(fp_log, Request(fp_qi, "page", o))
             /\ oa_pages' = Append(oa_pages, <<fp_qi, oa_page>>)
             /\ CASE o = "http_429" ->
                       OaFallback429 /\ UNCHANGED oa_papers
                  [] o \in {"http_500", "timeout"} ->
                       NextConcept(oa_papers) /\ UNCHANGED oa_papers
                  [] OTHER ->
                       \E results \in ResultCounts(per_page) :
                       \E added \in {0, results} :
                         /\ oa_papers' = oa_papers + added
                         /\ IF results = 0 \/ oa_fetched + results >= limit
                            THEN NextConcept(oa_papers + added)
                            ELSE /\ oa_fetched' = oa_fetched + results
                                 /\ oa_page' = oa_page + 1
                                 /\ fp_qi' = fp_qi
    /\ UNCHANGED <<ddVars, pipeVars, schedVars, askVars, epVars, chunkVars, rrVars,
                   fp_provider, fp_calls, fp_pc, fp_attempt, s2_retries, oa_path>>

\* PubMed, fetch_recent_papers: one round of the loop over the queries:
\* _search_pmids, which returns [] on every failure, and _fetch_details for
\* the ids found, which skips a batch that fails
PubmedRequest ==
    /\ fp_provider = "pubmed"
    /\ fp_pc = "loop"
    /\ fp_qi <= MaxQueries
    /\ \E o \in OutcomesNow :
         LET searched == Append(fp_log, Request(fp_qi, "search", o))
         IN  IF o = "ok"
             THEN \E d \in OutcomesNow :
                      fp_log' = Append(searched, Request(fp_qi, "details", d))
             ELSE fp_log' = searched
    /\ fp_qi' = fp_qi + 1
    /\ UNCHANGED <<ddVars, pipeVars, schedVars, askVars, epVars, chunkVars, rrVars,
                   fp_provider, fp_calls, fp_pc, fp_attempt, s2_retries, oaVars>>

\* the loop is over: the fetch returns its papers
FetchReturn ==
    /\ fp_pc = "loop"
    /\ fp_qi > MaxQueries
    /\ fp_pc' = "done"
    /\ UNCHANGED <<ddVars, pipeVars, schedVars, askVars, epVars, chunkVars, rrVars,
                   fp_provider, fp_calls, fp_qi, fp_attempt, s2_retries, fp_log, oaVars>>

\* the next call of the same fetch, for the next user or in the next run:
\* its locals start afresh, the attribute _retries of the function is kept
FetchAgain ==
    /\ fp_pc = "done"
    /\ fp_calls < MaxCalls
    /\ fp_calls' = fp_calls + 1
    /\ fp_pc' = "loop"
    /\ fp_qi' = 1
    /\ fp_attempt' = 0
    /\ fp_log' = <<>>
    /\ oa_page' = (IF oa_path = "fallback" THEN 1 ELSE 0)
    /\ oa_fetched' = 0
    /\ oa_papers' = 0
    /\ oa_pages' = <<>>
    /\ UNCHANGED <<ddVars, pipeVars, schedVars, askVars, epVars, chunkVars, rrVars,
                   fp_provider, s2_retries, oa_path>>

NextFetch ==
    \/ ArxivRequest
    \/ S2Request
    \/ OpenAlexRequest
    \/ OpenAlexFallbackRequest
    \/ PubmedRequest
    \/ FetchReturn
    \/ FetchAgain

SpecFetch == InitFetch /\ [][NextFetch]_vars

(***************************************************************************)
(* rerank_papers and rerank_for_qa on drawn inputs (rerank_service.py)     *)
(***************************************************************************)
MaxPool == 3         \* papers in the list handed to the reranker
MaxTopN == 2         \* the largest top_n drawn

RerankIds == {"2401.00001", "s2:77", "oa:W9", "pmid:5"}

\* the lists of at most n papers, no paper twice
Pools(n) ==
    {[i \in 1..Len(ids) |-> PoolEntry(ids[i])] :
        ids \in UNION {Orders(T) :
                         T \in {U \in SUBSET RerankIds : Cardinality(U) <= n}}}

NoResponse == [called |-> FALSE, raised |-> FALSE, results |-> <<>>]

\* what _client.rerank can do when asked for k of n documents: raise, or
\* answer with at most k results whose indexes may be out of range (n + 1)
Responses(n, k) ==
    {[called |-> TRUE, raised |-> TRUE, results |-> <<>>]}
    \cup {[called |-> TRUE, raised |-> FALSE, results |-> r] :
            r \in UNION {[1..m -> 1..(n + 1)] : m \in 0..k}}

\* on a failure the papers are dropped instead of passed through in order
rerank_papers_emptyOnFailure(has_client, papers_in, top_n, response) ==
    IF papers_in = <<>> \/ ~has_client \/ response.raised THEN <<>>
    ELSE [i \in 1..Len(response.results) |->
            [papers_in[response.results[i]] EXCEPT !.score = "rerank"]]

\* rerank_papers, response being what the service does if it is called;
\* papers[result.index] raises IndexError inside the try for an index that
\* is out of range
rerank_papers(has_client, papers_in, top_n, response) ==
    IF papers_in = <<>> THEN <<>>
    ELSE IF ~has_client THEN Prefix(papers_in, top_n)
    ELSE IF \/ response.raised
            \/ \E i \in 1..Len(response.results) :
                   response.results[i] > Len(papers_in)
         THEN Prefix(papers_in, top_n)
         ELSE [i \in 1..Len(response.results) |->
                 [papers_in[response.results[i]] EXCEPT !.score = "rerank"]]

\* the service is called when there are papers and a client
ServiceCalled(has_client, papers_in) == papers_in # <<>> /\ has_client

InitRerank ==
    /\ PipeIdle /\ DedupIdle /\ SchedIdle /\ AskIdle /\ EpIdle
    /\ ChunkIdle /\ FetchIdle
    /\ rr_pc = "start"
    /\ rr_fn \in {"rerank_papers", "rerank_for_qa"}
    /\ rr_client \in BOOLEAN
    /\ rr_papers \in Pools(MaxPool)
    /\ rr_top_n \in 1..MaxTopN
    /\ rr_response = NoResponse
    /\ rr_result = <<>>

\* a call of rerank_papers, or of rerank_for_qa, which hands its arguments
\* to rerank_papers
RerankCall ==
    /\ rr_pc = "start"
    /\ \E response \in
           (IF ServiceCalled(rr_client, rr_papers)
            THEN Responses(Len(rr_papers), Min(rr_top_n, Len(rr_papers)))
            ELSE {NoResponse}) :
         /\ rr_response' = response
         /\ rr_result' = rerank_papers(rr_client, rr_papers, rr_top_n, response)
    /\ rr_pc' = "returned"
    /\ UNCHANGED <<ddVars, pipeVars, schedVars, askVars, epVars, chunkVars,
                   fetchVars, rr_fn, rr_client, rr_papers, rr_top_n>>

NextRerank == RerankCall

SpecRerank == InitRerank /\ [][NextRerank]_vars

(***************************************************************************)
(* Step 6 on pools around TOP_MATCHES_PER_USER papers                      *)
(*                                                                         *)
(* A pool of 25 papers has more iteration orders, and the reranker more    *)
(* answers, than can be enumerated: the step is taken for two orders of    *)
(* the pool, for a reranker that falls back, raises or picks the last      *)
(* papers, and for a feed store that fails on no insert or on the first.   *)
(***************************************************************************)
MaxOver == 2         \* papers a drawn pool has above TOP_MATCHES_PER_USER

\* the pool sizes drawn: small pools and pools around the threshold
PoolSizes ==
    {1, 2, 3} \cup ((TOP_MATCHES_PER_USER - 1)..(TOP_MATCHES_PER_USER + MaxOver))

\* the ids of a pool of n papers
PoolIds(n) == {ToString(i) : i \in 1..n}

\* the ids of a pool of n papers in the order of their numbers
Ascending(n) == [i \in 1..n |-> ToString(i)]

Reverse(l) == [i \in 1..Len(l) |-> l[Len(l) + 1 - i]]

\* a record of processed_papers for a paper handled before this step
RankedRecord(pid) ==
    [arxiv_id |-> pid, title |-> T_Graphs, source |-> "openalex",
     abstract_vector |-> "vec", summary |-> "text", full_text |-> "none"]

\* rerank_papers without a client, with a call that raises, and with a
\* service that picks the last top_n papers, the last one first
SampledRerank(user_pool, top_n) ==
    LET n == Len(user_pool)
        k == Min(top_n, n)
        picks == [called |-> TRUE, raised |-> FALSE,
                  results |-> [i \in 1..k |-> n + 1 - i]]
        raises == [called |-> TRUE, raised |-> TRUE, results |-> <<>>]
    IN  {rerank_papers(FALSE, user_pool, top_n, NoResponse),
         rerank_papers(TRUE, user_pool, top_n, raises),
         rerank_papers(TRUE, user_pool, top_n, picks)}

\* a run has reached step 6 with one user, whose fetched papers are all in
\* processed_papers; the first may be missing from the papers store, and
\* the second may be in the user's feed already
InitRank ==
    /\ DedupIdle /\ SchedIdle /\ AskIdle /\ EpIdle /\ SvcIdle
    /\ users_tbl = [u \in UserIds |->
                      UserRow(u, <<"cs">>, "gnn for molecules", CachedProfile)]
    /\ \E n \in PoolSizes, lost \in SUBSET {"1"}, old \in SUBSET {"2"} :
         /\ user_paper_ids = ("u1" :> PoolIds(n))
         /\ processed_papers = [pid \in PoolIds(n) |-> RankedRecord(pid)]
         /\ papers = [pid \in PoolIds(n) \ lost |-> RankedRecord(pid)]
         /\ feed_items = [i \in 1..Cardinality(old \cap PoolIds(n)) |->
                            [user_id |-> "u1", paper_id |-> "2",
                             relevance_score |-> <<"rerank", 0, 0>>]]
    /\ paper_chunks = <<>>
    /\ run_pc = "rank"
    /\ run_no = 1
    /\ faults = 0
    /\ fetched = 0
    /\ result = [status |-> "none"]
    /\ users = <<users_tbl["u1"]>>
    /\ ui = 1
    /\ all_raw_papers = <<>>
    /\ all_papers = <<>>
    /\ pi = 0
    /\ papers_to_embed = <<>>
    /\ full_texts = EmptyFn
    /\ vectors = <<>>
    /\ batch_start = 0
    /\ ei = 0
    /\ all_chunks = <<>>
    /\ feed_items_created = 0
    /\ fetch_log = EmptyFn
    /\ profile_log = EmptyFn
    /\ rerank_log = EmptyFn
    /\ present_at_exam = EmptyFn
    /\ embed_calls = {}
    /\ summary_calls = {}
    /\ insert_attempts = {}
    /\ embed_failed = {}
    /\ summary_failed = {}
    /\ ranked = EmptyFn
    /\ feed_faults = EmptyFn
    /\ unit_failures = {}

\* the body of the user loop of step 6, as RankUser, on the sampled choices
RankUserSampled ==
    /\ run_pc = "rank"
    /\ ui <= Len(users)
    /\ LET uid == users[ui].id
           paper_ids_for_user == user_paper_ids[uid]
           inPool == {pid \in paper_ids_for_user : pid \in DOMAIN processed_papers}
       IN  /\ paper_ids_for_user # {}
           /\ \E order \in {Ascending(Cardinality(inPool)),
                            Reverse(Ascending(Cardinality(inPool)))} :
                LET user_pool == [i \in 1..Len(order) |-> PoolEntry(order[i])]
                IN  \E reranked \in
                        (IF NeedsRerank(user_pool)
                         THEN SampledRerank(user_pool, TOP_MATCHES_PER_USER)
                         ELSE {user_pool}) :
                      \E bad \in SUBSET (1..Min(1, Len(reranked))) :
                        SaveToFeed(uid, user_pool, reranked, bad)
    /\ ui' = ui + 1
    /\ UNCHANGED <<nonPipeVars, users_tbl, papers, paper_chunks, run_pc, run_no, fetched,
                   users, user_paper_ids, all_raw_papers, all_papers, pi,
                   processed_papers, papers_to_embed, full_texts, vectors,
                   batch_start, ei, all_chunks, result, fetch_log, profile_log,
                   present_at_exam, embed_calls, summary_calls,
                   insert_attempts, embed_failed, summary_failed>>

NextRank == RankUserSampled \/ FinishRun

SpecRank == InitRank /\ [][NextRank]_vars

(***************************************************************************)
(* The dedup merge on drawn inputs                                         *)
(***************************************************************************)
InitDedup ==
    /\ dd_lists \in DedupInputs
    /\ dd_merged = <<>>
    /\ dd_pc = "input"
    /\ PipeIdle
    /\ SchedIdle
    /\ AskIdle
    /\ EpIdle
    /\ SvcIdle

\* merged = _deduplicate_papers(paper_lists)
CallDedup ==
    /\ dd_pc = "input"
    /\ dd_merged' = _deduplicate_papers(dd_lists)
    /\ dd_pc' = "done"
    /\ UNCHANGED <<dd_lists, pipeVars, svcVars, schedVars, askVars, epVars>>

NextDedup == CallDedup

SpecDedup == InitDedup /\ [][NextDedup]_vars

(***************************************************************************)
(* Claims on the dedup merge                                               *)
(***************************************************************************)
dd_input == Flatten(dd_lists)


TitleSeenBefore(s, i) ==
    /\ title_key(s[i].title) # <<>>
    /\ \E j \in 1..(i - 1) : title_key(s[j].title) = title_key(s[i].title)

CollapseWhitespace(s) ==
    LET keep == {i \in 1..Len(s) :
                   s[i] \notin Whitespace \/ i = 1 \/ s[i - 1] \notin Whitespace}
        nth(k) == CHOOSE i \in keep : Cardinality({j \in keep : j < i}) = k - 1
    IN  [k \in 1..Cardinality(keep) |->
            IF s[nth(k)] \in Whitespace THEN " " ELSE s[nth(k)]]

\* the normalized title prefix of the claim: lower-cased, whitespace
\* collapsed, trimmed, cut to the first 100 characters
NormalizedTitle(title) ==
    Prefix(Strip(CollapseWhitespace(Lower(title))), TITLE_KEY_LEN)

\* C17, for candidates that have a title: of two candidates whose titles are
\* equal after lower-casing, collapsing whitespace, trimming and cutting to
\* 100 characters, the merge keeps only the first, ids equal or not, and
\* every kept entry is a candidate of the input, unchanged.
C17_Original ==
    dd_pc = "done" =>
        /\ \A i, j \in 1..Len(dd_merged) :
               (/\ i < j
                /\ NormalizedTitle(dd_merged[i].title) # <<>>)
               => NormalizedTitle(dd_merged[i].title)
                     # NormalizedTitle(dd_merged[j].title)
        /\ \A i \in 1..Len(dd_merged) :
               \E j \in 1..Len(dd_input) : dd_merged[i] = dd_input[j]

(***************************************************************************)
(* Claims on run_daily_pipeline                                            *)
(***************************************************************************)
\* C2: a paper that is in the papers store when step 4 examines it gets no
\* embedding call, no summary call and no insert in that run, and its stored
\* row stays as it was.
C2_Idempotent ==
    \A pid \in DOMAIN present_at_exam :
        /\ pid \notin embed_calls
        /\ pid \notin summary_calls
        /\ pid \notin insert_attempts
        /\ pid \in DOMAIN papers
        /\ papers[pid] = present_at_exam[pid]

\* a second run has ended in which one fetched paper was already stored and
\* another one was new and went through embedding and summary
C2_Witness ==
    /\ run_no = 2
    /\ run_pc = "done"
    /\ present_at_exam # EmptyFn
    /\ embed_calls # {}
    /\ summary_calls # {}

\* C3: the feed store never holds two rows for one (user_id, paper_id); an
\* insert that hits an existing row does not stop the loop (every later item
\* of the user whose paper is stored and whose insert the store accepts has
\* its row), and a run that went through the ranking ends with status success.
C3_FeedIdempotent ==
    /\ \A i, j \in 1..Len(feed_items) :
          (/\ feed_items[i].user_id = feed_items[j].user_id
           /\ feed_items[i].paper_id = feed_items[j].paper_id) => i = j
    /\ \A u \in DOMAIN ranked :
          \A k \in 1..Len(ranked[u]) :
              (/\ k \notin feed_faults[u].bad
               /\ ranked[u][k].arxiv_id \in DOMAIN papers)
                  => FeedHas(feed_items, u, ranked[u][k].arxiv_id)
    /\ (run_pc = "done" /\ \E u \in DOMAIN ranked : feed_faults[u].dups # {})
          => result.status = "success"

\* a run has ended in which an insert hit an existing row and a later item of
\* the same user was inserted
C3_Witness ==
    /\ run_pc = "done"
    /\ result.status = "success"
    /\ \E u \in DOMAIN ranked :
         \E k \in feed_faults[u].dups :
           \E m \in 1..Len(ranked[u]) :
              /\ m > k
              /\ m \notin feed_faults[u].dups
              /\ m \notin feed_faults[u].bad
              /\ FeedHas(feed_items, u, ranked[u][m].arxiv_id)
    /\ feed_items_created > 0

\* the ids of the lists the providers returned to user u
ReturnedIds(u) ==
    UNION {IdsOf(fetch_log[u][q].papers) : q \in DOMAIN fetch_log[u]}

\* C8: a provider call that raises contributes nothing, the lists of the other
\* providers of that user are collected, the later users are fetched, and the
\* run does not end because of it.
C8_ProviderIsolation ==
    /\ \A u \in DOMAIN fetch_log :
          /\ user_paper_ids[u] = ReturnedIds(u)
          /\ \A q \in DOMAIN fetch_log[u] :
                \A i \in 1..Len(fetch_log[u][q].papers) :
                    \E j \in 1..Len(all_raw_papers) :
                        all_raw_papers[j] = fetch_log[u][q].papers[i]
    /\ (run_pc \in {"exam", "embed", "enrich", "chunk", "rank", "done"})
          => \A i \in 1..Len(users) :
                users[i].domains # <<>> => users[i].id \in DOMAIN fetch_log
    /\ (run_pc = "raised" /\ \E u \in DOMAIN fetch_log :
                               \E q \in DOMAIN fetch_log[u] : fetch_log[u][q].raised)
          => result.at \notin {"arxiv", "semantic_scholar", "pubmed", "openalex"}

\* a run has ended with success in which a provider raised for the first
\* user, another provider returned a paper to that user, and the second user
\* was fetched and got a paper
C8_Witness ==
    /\ run_pc = "done"
    /\ result.status = "success"
    /\ Len(users) = 2
    /\ users[1].id \in DOMAIN fetch_log
    /\ users[2].id \in DOMAIN fetch_log
    /\ \E q \in ProviderSet : fetch_log[users[1].id][q].raised
    /\ user_paper_ids[users[1].id] # {}
    /\ user_paper_ids[users[2].id] # {}

\* C9 as stated: a new paper whose embedding call or summary call failed in
\* this run is not in the papers store.
C9_Original ==
    \A pid \in embed_failed \cup summary_failed : pid \notin DOMAIN papers

\* C10 as stated: a run in which a step of one paper or of one user failed
\* still ends by return, with every other new paper enriched and every user
\* that fetched papers ranked.
C10_Original ==
    (run_pc \in {"done", "raised"} /\ unit_failures # {}) =>
        /\ run_pc = "done"
        /\ \A i \in 1..Len(all_papers) :
              LET pid == all_papers[i].arxiv_id
              IN  (\A f \in unit_failures : f.id # pid)
                     => (pid \in DOMAIN present_at_exam \/ pid \in insert_attempts)
        /\ \A u \in DOMAIN user_paper_ids :
              user_paper_ids[u] # {} => u \in DOMAIN ranked

\* the executions of run_daily_pipeline in progress
InProgress == {i \in 1..Len(sched_runs) : sched_runs[i].state = "executing"}

\* C4 as stated: at most one execution of run_daily_pipeline is in progress
\* at any time, whatever the triggers.
C4_Original == Cardinality(InProgress) <= 1

\* two fetched candidates are copies of one paper: the same canonical id, or
\* the same non-empty title key
SamePaper(p, q) ==
    \/ p.arxiv_id = q.arxiv_id
    \/ /\ title_key(p.title) # <<>>
       /\ title_key(p.title) = title_key(q.title)

\* C16: when one run fetched a paper from arXiv and from another provider,
\* for whichever users, the global dedup keeps the arXiv copy, so the copy
\* of the other provider is not among the papers kept.
C16_Original ==
    run_pc = "exam" =>
        \A i, j \in 1..Len(all_raw_papers) :
            (/\ all_raw_papers[i].source = "arxiv"
             /\ all_raw_papers[j].source # "arxiv"
             /\ SamePaper(all_raw_papers[i], all_raw_papers[j]))
            => \A k \in 1..Len(all_papers) : all_papers[k] # all_raw_papers[j]

\* the stored optimized_queries parses to a profile with search queries
ProfileUsable(raw) == raw.kind = "json" /\ Len(raw.search_queries) > 0

\* C20: a run does not call the query optimizer for a user whose stored
\* profile parses and has search queries, and leaves that user's
\* optimized_queries as stored; the optimizer is called, and the field
\* written, only for a profile that is missing, unparsable or without
\* queries, and no later step of the run writes the field.
C20_CachedProfile ==
    \A u \in DOMAIN profile_log :
        LET e == profile_log[u]
        IN  /\ ProfileUsable(e.stored) =>
                  (~e.optimizer_called /\ e.after = e.stored)
            /\ e.optimizer_called =>
                  \/ e.stored = NoProfile
                  \/ e.stored = UnparsableProfile
                  \/ (e.stored.kind = "json" /\ e.stored.search_queries = <<>>)
            /\ e.after # e.stored => e.optimizer_called
            /\ users_tbl[u].optimized_queries = e.after

\* one run has served a user from the cached profile and has called the
\* optimizer for another, whose new profile it wrote
C20_Witness ==
    \E u, v \in DOMAIN profile_log :
        /\ ProfileUsable(profile_log[u].stored)
        /\ ~profile_log[u].optimizer_called
        /\ profile_log[v].optimizer_called
        /\ profile_log[v].after # profile_log[v].stored
        /\ ProfileUsable(profile_log[v].after)

\* C23: in the ranking step the rerank query of a user is the space-joined
\* search queries of the profile the same run fetched that user's papers
\* with, when that profile has a search query, and the raw interest text
\* otherwise; also for a profile the run generated itself.
C23_Original ==
    \A u \in DOMAIN rerank_log :
        u \in DOMAIN profile_log =>
            LET used == profile_log[u].search_queries
            IN  rerank_log[u].query = (IF used # <<>> THEN Join(used)
                                       ELSE <<users_tbl[u].interest_text>>)

(***************************************************************************)
(* Claims on the retrieval                                                 *)
(***************************************************************************)
\* the ids returned both by the title-match pass and by the vector pass
InBothPasses == IdsOf(title_matches) \cap IdsOf(vector_papers)

\* C5: in the context returned by _retrieve_context no id appears twice; a
\* paper returned by the title-match pass and by the vector pass has exactly
\* one entry, the title-match copy, at its title-match rank, before every
\* entry that came from the vector pass only.
C5_MergeOrder ==
    (ask_pc = "done" /\ ask_outcome = "returned") =>
        /\ \A i, j \in 1..Len(merged) :
              i # j => merged[i].arxiv_id # merged[j].arxiv_id
        /\ \A id \in InBothPasses :
              LET rank == FirstPos(PosOfId(title_matches, id))
              IN  /\ Cardinality(PosOfId(merged, id)) = 1
                  /\ merged[rank] = title_matches[rank]
                  /\ merged[rank].via = "title"
                  /\ \A k \in 1..Len(merged) :
                        merged[k].arxiv_id \notin IdsOf(title_matches)
                           => rank < k

\* a context was returned for a question whose title match was also found by
\* the vector pass, behind a paper that only the vector pass found
C5_Witness ==
    /\ ask_pc = "done"
    /\ ask_outcome = "returned"
    /\ \E id \in InBothPasses :
         \E k \in 1..Len(vector_papers) :
            /\ k < FirstPos(PosOfId(vector_papers, id))
            /\ vector_papers[k].arxiv_id \notin IdsOf(title_matches)
            /\ vector_papers[k].arxiv_id \in IdsOf(merged)

C7_Original ==
    (/\ ask_pc \notin {"off", "start"}
     /\ ~title_failed
     /\ P_Attention.arxiv_id \in FeedPaperIds(ask_user_id) \cap DOMAIN papers) =>
        /\ question = Q_Explain
              => P_Attention.arxiv_id \in IdsOf(title_matches)
        /\ question = Q_Math => title_matches = <<>>

(***************************************************************************)
(* Claims on the ask endpoints                                             *)
(***************************************************************************)
\* the positions of the done and error events in the stream
TerminalEvents ==
    {i \in 1..Len(events) : events[i].event \in {"done", "error"}}

\* the outcome of an ended request to a non-streaming endpoint
OneResponse ==
    /\ events = <<>>
    /\ Len(responses) = 1
    /\ responses[1].kind \in {"answer", "no_corpus", "http_500"}

\* the outcome of an ended request to a streaming endpoint
OneTerminalEvent ==
    /\ responses = <<>>
    /\ TerminalEvents = {Len(events)}

\* C11 as stated: every request ends with exactly one terminal outcome: an
\* answer, the empty-context message or an error response for the
\* non-streaming endpoints; for the streaming endpoints exactly one done or
\* error event, which is the last event.
C11_Original ==
    /\ TerminalEvents \subseteq {Len(events)}
    /\ ep_pc = "ended" =>
          IF Streaming(endpoint) THEN OneTerminalEvent ELSE OneResponse

\* the request to ask_stream_multimodal ended before its stream began: the
\* exception of the file processing left the handler
EndedBeforeStream ==
    /\ endpoint = "ask_stream_multimodal"
    /\ req_files = "bad"
    /\ events = <<>>
    /\ Len(responses) = 1
    /\ responses[1].kind = "unhandled"

\* the outcome of a request as amended
OneOutcome ==
    /\ TerminalEvents \subseteq {Len(events)}
    /\ ep_pc = "ended" =>
          IF Streaming(endpoint)
          THEN IF req_files = "bad" THEN EndedBeforeStream
               ELSE OneTerminalEvent
          ELSE OneResponse

\* C11 amended: every request ends, and with exactly one terminal outcome as
\* stated, except that a request to ask_stream_multimodal whose upload
\* processing raises ends with the server's error response and no event,
\* the file loop of that handler being outside its try.
C11_Amended == []OneOutcome /\ <>(ep_pc = "ended")

\* a stream ended by an error event after a token, the generation having
\* raised in the middle
C11_Witness ==
    /\ ep_pc = "ended"
    /\ Streaming(endpoint)
    /\ TokensOut > 0
    /\ events[Len(events)] = Sse("error", X_Generation, 0)

\* the caller was told that the corpus is empty
NoCorpusTold ==
    \/ \E i \in 1..Len(responses) :
          responses[i].kind = "no_corpus" /\ responses[i].sources = 0
    \/ \E i \in 1..Len(events) : events[i].event = "no_corpus"

\* C12 as stated: on every endpoint that runs retrieval, an empty merged
\* context gives the caller the no-papers result with empty sources, no
\* error, and no call of the answer generation.
C12_Original ==
    (ep_pc = "ended" /\ ask_outcome = "returned" /\ merged = <<>>) =>
        /\ NoCorpusTold
        /\ gen_calls = <<>>
        /\ \A i \in 1..Len(responses) : responses[i].kind # "http_500"
        /\ \A i \in 1..Len(events) : events[i].event # "error"

\* C13: in ask_question and ask_stream an intent of general or follow_up
\* leads to the answer generation with an empty context and the history of
\* the request; no embedding, no retrieval query, no rerank and no graph
\* query is made.
C13_DirectAnswer ==
    (endpoint \in {"ask_question", "ask_stream"}
       /\ intent \in {"general", "follow_up"}) =>
        /\ ask_pc = "off"
        /\ calls = {"classify_query_intent"}
        /\ ep_pc \in {"generate", "ended"}
        /\ \A i \in 1..Len(gen_calls) :
              gen_calls[i].context = <<>> /\ gen_calls[i].history = req_history
        /\ ep_pc = "ended" => Len(gen_calls) = 1

\* a follow-up with history was answered for a user whose feed has papers
C13_Witness ==
    /\ ep_pc = "ended"
    /\ endpoint \in {"ask_question", "ask_stream"}
    /\ intent = "follow_up"
    /\ req_history # <<>>
    /\ feed_items # <<>>
    /\ Len(gen_calls) = 1
    /\ gen_calls[1].history = req_history

\* C19 as stated: the error sent to the client, as HTTP 500 detail or as the
\* message of an error event, never holds the text of the internal exception.
C19_Original ==
    /\ \A i \in 1..Len(responses) :
          responses[i].kind = "http_500"
             => responses[i].detail \notin InternalTexts
    /\ \A i \in 1..Len(events) :
          events[i].event = "error" => events[i].text \notin InternalTexts

(***************************************************************************)
(* Claims on the chunking                                                  *)
(***************************************************************************)
\* the rows of a chunk list that carry the paper id pid, in list order
ChunksOf(pid, chunks) ==
    LET mine(c) == c.paper_id = pid
    IN  SelectSeq(chunks, mine)

\* chunk_index runs 0, 1, .., n-1 along the list
IndexedFromZero(chunks) ==
    \A i \in 1..Len(chunks) : chunks[i].chunk_index = i - 1

\* C14: every non-empty result of chunk_paper has the chunk_index values
\* 0..n-1 in list order and the paper_id passed in on every chunk, and in the
\* result of batch_chunk_papers the chunks of each paper keep that numbering.
C14_Contiguous ==
    /\ chunk_pc \in {"chunked", "done"} =>
           /\ IndexedFromZero(chunk_result)
           /\ \A i \in 1..Len(chunk_result) :
                  chunk_result[i].paper_id = chunk_input.arxiv_id
    /\ chunk_pc = "done" =>
           /\ \A i \in 1..Len(chunk_batch) :
                  IndexedFromZero(ChunksOf(chunk_batch[i].arxiv_id, batch_result))
           /\ ChunksOf(chunk_input.arxiv_id, batch_result) = chunk_result
           /\ \A i \in 1..Len(batch_result) :
                  \E j \in 1..Len(chunk_batch) :
                      batch_result[i].paper_id = chunk_batch[j].arxiv_id

\* a text whose result has two chunks after a tiny raw chunk was filtered
\* out, in a batch where the other paper has a chunk too
C14_Witness ==
    /\ chunk_pc = "done"
    /\ Len(chunk_result) >= 2
    /\ Len(RawChunks(chunk_input.full_text)) > Len(chunk_result)
    /\ \A i \in 1..Len(chunk_batch) :
           ChunksOf(chunk_batch[i].arxiv_id, batch_result) # <<>>

RECURSIVE FirstOccurrences(_, _)
\* a list with every repeated element removed but its first occurrence
FirstOccurrences(acc, lst) ==
    IF lst = <<>> THEN acc
    ELSE FirstOccurrences(IF Head(lst) \in SeqToSet(acc) THEN acc
                          ELSE Append(acc, Head(lst)), Tail(lst))

\* the fragments of the chunks of a result, concatenated in index order
ChunkBodies(chunks) ==
    Flatten([i \in 1..Len(chunks) |-> chunks[i].chunk_text.body])

\* C15: for a non-empty result of chunk_paper, the chunks concatenated in
\* index order, the repeated overlap removed, give back every unit of the
\* source text in source order, none missing.
C15_Original ==
    (chunk_pc = "chunked" /\ chunk_result # <<>>) =>
        FirstOccurrences(<<>>, ChunkBodies(chunk_result))
            = [i \in 1..Len(chunk_input.full_text) |-> i]

(***************************************************************************)
(* Claims on the providers                                                 *)
(***************************************************************************)
\* the search requests of the fetch for query q, in the order issued
SearchesFor(q) ==
    LET mine(r) == r.query = q /\ r.request = "search"
    IN  SelectSeq(fp_log, mine)

\* C18: when a fetch of any of the four providers over a list of queries
\* has returned, every query of its list was requested; a request that
\* failed (timeout, exception, 429 or another non-200 status) was followed
\* by another request for the same query until one succeeded or three had
\* been made, and never by more.
C18_Original ==
    (fp_pc = "done" /\ oa_path # "fallback") =>
        \A q \in 1..MaxQueries :
            LET reqs == SearchesFor(q)
            IN  /\ reqs # <<>>
                /\ Len(reqs) <= 3
                /\ reqs[Len(reqs)].outcome = "ok" \/ Len(reqs) = 3
                /\ \A i \in 1..(Len(reqs) - 1) : reqs[i].outcome # "ok"

(***************************************************************************)
(* Claims on the title matching                                            *)
(***************************************************************************)
\* the papers of the asking user's feed, as the store holds them
FeedPapers == PapersIn(FeedPaperIds(ask_user_id))

\* the significant tokens a title shares with the question, and its tokens
SharedCount(row) ==
    Cardinality(SignificantWords(question) \cap SignificantWords(row.title))
TokenCount(row) == Cardinality(SignificantWords(row.title))

\* at least 3 shared tokens and shared/title tokens at least 0.4
Qualifies(row) ==
    /\ TokenCount(row) > 0
    /\ SharedCount(row) >= 3
    /\ 10 * SharedCount(row) >= 4 * TokenCount(row)

\* x ranks strictly above y: a greater ratio, or the same ratio and more
\* shared tokens
RanksAbove(x, y) ==
    \/ SharedCount(x) * TokenCount(y) > SharedCount(y) * TokenCount(x)
    \/ /\ SharedCount(x) * TokenCount(y) = SharedCount(y) * TokenCount(x)
       /\ SharedCount(x) > SharedCount(y)

\* C21: _find_title_matches returns papers of the user's feed that share at
\* least 3 significant tokens with the question at a ratio of at least 0.4,
\* each once, best first by (ratio, shared count), the first 3 of them: no
\* qualifying paper left out ranks above a returned one; a paper without
\* significant title tokens is never returned; a store failure gives the
\* empty list.
C21_TitleMatches ==
    ask_pc = "chunk_search" =>
        LET n == Len(title_matches)
            row(i) == papers[title_matches[i].arxiv_id]
            all == {r \in FeedPapers : Qualifies(r)}
        IN  IF title_failed THEN title_matches = <<>>
            ELSE /\ \A i \in 1..n :
                        /\ title_matches[i].arxiv_id \in FeedPaperIds(ask_user_id)
                        /\ title_matches[i].arxiv_id \in DOMAIN papers
                        /\ title_matches[i].title = row(i).title
                        /\ Qualifies(row(i))
                 /\ \A i, j \in 1..n :
                        i < j => /\ title_matches[i].arxiv_id
                                      # title_matches[j].arxiv_id
                                 /\ ~RanksAbove(row(j), row(i))
                 /\ n = (IF Cardinality(all) < 3 THEN Cardinality(all) ELSE 3)
                 /\ \A r \in all :
                        r.arxiv_id \notin IdsOf(title_matches)
                        => \A i \in 1..n : ~RanksAbove(r, row(i))

\* four papers of the feed qualify, next to papers that fail on the count,
\* on the ratio and for want of tokens, and three are returned, the second
\* tied with the first on the ratio
C21_Witness ==
    /\ ask_pc = "chunk_search"
    /\ ~title_failed
    /\ Len(title_matches) = 3
    /\ Cardinality({r \in FeedPapers : Qualifies(r)}) = 4
    /\ \E r \in FeedPapers : TokenCount(r) = 0
    /\ \E r \in FeedPapers : SharedCount(r) = 2
    /\ \E r \in FeedPapers : SharedCount(r) >= 3 /\ ~Qualifies(r)
    /\ title_matches[1].arxiv_id = "t2"
    /\ title_matches[2].arxiv_id = "t1"

(***************************************************************************)
(* Claims on the size of the chunks                                        *)
(***************************************************************************)
\* the fragments two chunks have in common
SharedUnits(a, b) ==
    LET inB(i) == \E k \in 1..Len(b) : b[k] = i
    IN  SelectSeq(a, inB)

\* C22: every chunk _merge_paragraphs_into_chunks produces holds at most
\* chunk_size (512) tokens, the overlap taken over from the chunk before
\* included, and what a chunk takes over from the chunk before holds at most
\* `overlap` (50) tokens, whatever the sizes of the paragraphs and sentences.
C22_Original ==
    chunk_pc = "chunked" =>
        LET text == chunk_input.full_text
            raw == RawChunks(text)
        IN  /\ \A i \in 1..Len(raw) :
                   SumTokens(text, raw[i]) <= CHUNK_SIZE_TOKENS
            /\ \A i \in 1..(Len(raw) - 1) :
                   SumTokens(text, SharedUnits(raw[i], raw[i + 1]))
                       <= CHUNK_OVERLAP_TOKENS

(***************************************************************************)
(* Claims on the reranker                                                  *)
(***************************************************************************)
\* C25: rerank_papers and rerank_for_qa return; without a client, or when
\* the rerank call raises, they return the first min(top_n, number of
\* papers) papers of the input, unchanged and in input order; for an empty
\* input they return the empty list and the service is not called.
C25_Fallback ==
    rr_pc = "returned" =>
        /\ rr_papers = <<>> => (rr_result = <<>> /\ ~rr_response.called)
        /\ ~rr_client => ~rr_response.called
        /\ (~rr_client \/ rr_response.raised) =>
               /\ Len(rr_result) = Min(rr_top_n, Len(rr_papers))
               /\ \A i \in 1..Len(rr_result) : rr_result[i] = rr_papers[i]

\* the service was called for more papers than top_n and raised, and the
\* first top_n papers came back
C25_Witness ==
    /\ rr_pc = "returned"
    /\ rr_fn = "rerank_for_qa"
    /\ rr_response.called
    /\ rr_response.raised
    /\ Len(rr_papers) > rr_top_n
    /\ rr_result = SubSeq(rr_papers, 1, rr_top_n)

(***************************************************************************)
(* Claims on the ranking step                                              *)
(***************************************************************************)
\* the feed store holds the row (uid, pid) with that score
FeedRowWith(uid, pid, score) ==
    \E i \in 1..Len(feed_items) :
        /\ feed_items[i].user_id = uid
        /\ feed_items[i].paper_id = pid
        /\ feed_items[i].relevance_score = score

\* C24: for a pool of at most TOP_MATCHES_PER_USER (25) papers the reranker
\* is not called, every paper of the pool is offered to the feed store, and
\* the paper at position r of n is stored with the score (n - r)/n, which is
\* in (0, 1] and falls with r; for a larger pool at most 25 papers are
\* offered to the feed store.
C24_Ranking ==
    \A u \in DOMAIN ranked :
        LET offered == ranked[u]
            n == Len(offered)
            pool == {pid \in user_paper_ids[u] : pid \in DOMAIN processed_papers}
        IN  IF Cardinality(pool) <= 25
            THEN /\ ~rerank_log[u].called
                 /\ n = Cardinality(pool)
                 /\ IdsOf(offered) = pool
                 /\ \A r \in 0..(n - 1) :
                        /\ offered[r + 1].score = "none"
                        /\ (/\ (r + 1) \notin feed_faults[u].bad
                            /\ (r + 1) \notin feed_faults[u].dups
                            /\ offered[r + 1].arxiv_id \in DOMAIN papers)
                           => /\ FeedRowWith(u, offered[r + 1].arxiv_id,
                                             <<"position", n - r, n>>)
                              /\ 0 < n - r /\ n - r <= n
            ELSE /\ rerank_log[u].called
                 /\ n <= 25
                 /\ IdsOf(offered) \subseteq pool

\* a pool of exactly 25 papers went to the feed without the reranker
C24_Witness ==
    /\ "u1" \in DOMAIN ranked
    /\ Cardinality(user_paper_ids["u1"]) = 25
    /\ Len(ranked["u1"]) = 25
    /\ ~rerank_log["u1"].called
    /\ FeedRowWith("u1", ranked["u1"][25].arxiv_id, <<"position", 1, 25>>)

(***************************************************************************)
(* Claims on the termination of the OpenAlex fetch                         *)
(***************************************************************************)
\* C26: the number of requests of one call of the OpenAlex
\* fetch_recent_papers is bounded whatever the service answers: no two
\* requests of a call are issued at the same position of its loops, the
\* (query, concept) pair of the search-query path and the (concept, page)
\* of the fallback path, and the positions are finitely many.
C26_Original ==
    fp_provider = "openalex" =>
        /\ \A i, j \in 1..Len(oa_pages) : i # j => oa_pages[i] # oa_pages[j]
        /\ oa_path = "search" =>
              \A i, j \in 1..Len(fp_log) :
                 i # j => fp_log[i].query # fp_log[j].query

(***************************************************************************)
(* Claims on the pipeline status                                           *)
(***************************************************************************)
\* C27: GET /pipeline/status, which returns _pipeline_status, reports
\* running = true whenever a run started by POST /pipeline/run or by the
\* timer is executing.
C27_Original ==
    (Executing("manual") \cup Executing("timer") # {})
        => _pipeline_status.running

(***************************************************************************)
(* Claims on the rate-limit counter of Semantic Scholar                    *)
(***************************************************************************)
\* the 429 responses a call has received
RateLimited(log) ==
    Cardinality({i \in 1..Len(log) : log[i].outcome = "http_429"})

\* C28: in every call of the Semantic Scholar fetch_recent_papers the
\* rate-limit counter starts at zero, the call abandons its remaining
\* queries only after more than S2_MAX_RETRIES 429 responses of its own,
\* and a query answered with 429 is the one asked next.
C28_Original ==
    fp_provider = "semantic_scholar" =>
        /\ (fp_pc = "loop" /\ fp_log = <<>>) => s2_retries = 0
        /\ (fp_pc = "done" /\ fp_qi <= MaxQueries)
              => RateLimited(fp_log) > S2_MAX_RETRIES
        /\ (fp_pc = "loop" /\ fp_log # <<>>
              /\ fp_log[Len(fp_log)].outcome = "http_429")
              => fp_qi = fp_log[Len(fp_log)].query

(***************************************************************************)
(* Claims on the ranking pool after the global dedup                       *)
(***************************************************************************)
\* C29: when a run has ended, every paper fetched for a user in it is
\* represented among the papers ranked for that user: the fetched copy, or
\* the copy of the same paper that the global dedup kept.
C29_Original ==
    (run_pc = "done" /\ result.status = "success") =>
        \A u \in DOMAIN user_paper_ids :
            \A i \in 1..Len(all_raw_papers) :
                all_raw_papers[i].arxiv_id \in user_paper_ids[u] =>
                    \E k \in 1..Len(ranked[u]) :
                        SamePaper(all_raw_papers[i],
                                  processed_papers[ranked[u][k].arxiv_id])

(***************************************************************************)
(* Claims on the inserts that refer to a paper                             *)
(***************************************************************************)
\* the chunks of step 5, all of which are offered to the chunk store, are
\* chunks of papers that the papers store holds
ChunksOfStoredPapers ==
    run_pc = "chunk" =>
        \A i \in 1..Len(all_chunks) : all_chunks[i].paper_id \in DOMAIN papers

\* the items offered to the feed store are papers that the papers store
\* holds; no paper leaves the papers store
FeedOfStoredPapers ==
    \A u \in DOMAIN ranked :
        \A k \in 1..Len(ranked[u]) : ranked[u][k].arxiv_id \in DOMAIN papers

\* C30: the pipeline attempts a chunk insert or a feed insert only for a
\* paper that is in the papers store at that moment, so a paper whose
\* insert failed in this run gets neither.
C30_Original == ChunksOfStoredPapers /\ FeedOfStoredPapers

====
